---------------------------- MODULE Spec2Model ----------------------------
(***************************************************************************)
(* Verification model of the technical-indicator analysis engine           *)
(* (src/src/analyzers).  Every analyzer is a function of a DataFrame of    *)
(* daily bars; the model keeps the DataFrame as a sequence of rows plus    *)
(* the kind of row labels it carries, and records, for the last call made, *)
(* the value returned or the exception raised.                             *)
(*                                                                         *)
(* Numbers.  The source computes in binary floating point.  The model      *)
(* computes exactly, on integers: a price or an indicator value v is held  *)
(* as the integer v * Scale of the column, and every comparison of the     *)
(* source of the form  a <= b * 0.1  is multiplied out to  10*a <= b.      *)
(* A ratio (a strength, a slope) is held as a pair <<num, den>>, den > 0.  *)
(***************************************************************************)
EXTENDS Integers, Sequences, FiniteSets, TLC

VARIABLES
    series,     \* the DataFrame handed to an analyzer: a sequence of rows
    labelling,  \* the row labels of the DataFrame: "asc" (0..n-1) or "desc" (n-1..0)
    bar,        \* the (open, close, high, low) handed to a single-bar predicate
    strength,   \* the number handed to convert_to_stars, <<num, den>>
    call,       \* the operation that was called last, "none" before any call
    ret,        \* what that call returned
    raised      \* the exception that call raised, "none" when it returned

vars == <<series, labelling, bar, strength, call, ret, raised>>

-----------------------------------------------------------------------------
(* Arithmetic helpers: Python's abs, max, min on the scaled integers.      *)

Abs(x) == IF x < 0 THEN -x ELSE x

Max(a, b) == IF a >= b THEN a ELSE b

Min(a, b) == IF a <= b THEN a ELSE b

\* A row that carries only prices; the indicator columns are added by Row.
OHLC(o, c, h, l) == [open |-> o, close |-> c, high |-> h, low |-> l]

-----------------------------------------------------------------------------
(* candlestick_analyzer.py: the single-bar predicates.                     *)

body(b) == Abs(b.open - b.close)

upper_shadow(b) == b.high - Max(b.open, b.close)

lower_shadow(b) == Min(b.open, b.close) - b.low

total_range(b) == b.high - b.low

\* mutant of is_doji: the shadows compared with >= instead of >
is_doji_ge(b) ==
    /\ 10 * body(b) <= total_range(b)
    /\ upper_shadow(b) >= body(b)
    /\ lower_shadow(b) >= body(b)

is_doji(b) ==
    /\ 10 * body(b) <= total_range(b)
    /\ upper_shadow(b) > body(b)
    /\ lower_shadow(b) > body(b)

\* mutant of is_hammer: the upper shadow bounded by 10% of the range
is_hammer_range(b) ==
    /\ lower_shadow(b) >= 2 * body(b)
    /\ 10 * upper_shadow(b) <= total_range(b)
    /\ 10 * body(b) >= total_range(b)

is_hammer(b) ==
    /\ lower_shadow(b) >= 2 * body(b)
    /\ 10 * upper_shadow(b) <= body(b)
    /\ 10 * body(b) >= total_range(b)

is_shooting_star(b) ==
    /\ upper_shadow(b) >= 2 * body(b)
    /\ 10 * lower_shadow(b) <= body(b)
    /\ 10 * body(b) >= total_range(b)

is_long_legged_doji(b) ==
    /\ 10 * body(b) <= total_range(b)
    /\ 10 * upper_shadow(b) >= 3 * total_range(b)
    /\ 10 * lower_shadow(b) >= 3 * total_range(b)

is_gravestone_doji(b) ==
    /\ 10 * body(b) <= total_range(b)
    /\ 10 * upper_shadow(b) >= 6 * total_range(b)
    /\ 10 * lower_shadow(b) <= total_range(b)

is_spinning_top(b) ==
    /\ 10 * body(b) <= 3 * total_range(b)
    /\ upper_shadow(b) >= body(b)
    /\ lower_shadow(b) >= body(b)
    /\ 10 * Abs(upper_shadow(b) - lower_shadow(b)) <= total_range(b)

\* mutant of is_inverted_hammer: a rising bar only
is_inverted_hammer_rising(b) ==
    /\ upper_shadow(b) >= 2 * body(b)
    /\ 10 * lower_shadow(b) <= body(b)
    /\ 10 * body(b) >= total_range(b)
    /\ b.close > b.open

is_inverted_hammer(b) ==
    /\ upper_shadow(b) >= 2 * body(b)
    /\ 10 * lower_shadow(b) <= body(b)
    /\ 10 * body(b) >= total_range(b)

\* mutant of is_hanging_man: the upper shadow is not looked at
is_hanging_man_any_top(b) ==
    /\ lower_shadow(b) >= 2 * body(b)
    /\ 10 * body(b) >= total_range(b)
    /\ b.close < b.open

is_hanging_man(b) ==
    /\ lower_shadow(b) >= 2 * body(b)
    /\ 10 * upper_shadow(b) <= body(b)
    /\ 10 * body(b) >= total_range(b)
    /\ b.close < b.open

-----------------------------------------------------------------------------
(* candlestick_analyzer.py: convert_to_stars.  A star string is modelled   *)
(* as a sequence of glyphs, "full" for the filled and "empty" for the      *)
(* hollow star; Rep is Python's  glyph * n  (empty when n <= 0).           *)

Rep(glyph, n) == [i \in 1..n |-> glyph]

\* max(0, min(5, strength)) on a ratio <<num, den>>
clamp_strength(s) ==
    LET upper == IF 5 * s[2] < s[1] THEN <<5, 1>> ELSE s
    IN  IF upper[1] < 0 THEN <<0, 1>> ELSE upper

\* mutant of convert_to_stars: the clamp to [0, 5] left out
convert_to_stars_noclamp(s) ==
    LET full_stars == IF s[1] >= 0 THEN s[1] \div s[2] ELSE -((-s[1]) \div s[2])
        empty_stars == 5 - full_stars
    IN  IF 2 * (s[1] - full_stars * s[2]) >= s[2]
        THEN Rep("full", full_stars) \o <<"full">> \o Rep("empty", empty_stars - 1)
        ELSE Rep("full", full_stars) \o Rep("empty", empty_stars)

convert_to_stars(s) ==
    LET c == clamp_strength(s)
        full_stars == c[1] \div c[2]
        empty_stars == 5 - full_stars
    IN  IF 2 * (c[1] - full_stars * c[2]) >= c[2]
        THEN Rep("full", full_stars) \o <<"full">> \o Rep("empty", empty_stars - 1)
        ELSE Rep("full", full_stars) \o Rep("empty", empty_stars)

-----------------------------------------------------------------------------
(* candlestick_analyzer.py: the two-day predicates, on rows day1, day2.    *)

is_bullish_engulfing(day1, day2) ==
    /\ day1.close < day1.open
    /\ day2.close > day2.open
    /\ day2.open < day1.close
    /\ day2.close > day1.open

is_bearish_engulfing(day1, day2) ==
    /\ day1.close > day1.open
    /\ day2.close < day2.open
    /\ day2.open > day1.close
    /\ day2.close < day1.open

is_harami(day1, day2, bullish) ==
    IF bullish
    THEN /\ day1.close < day1.open
         /\ day2.close > day2.open
         /\ day2.open > day1.close
         /\ day2.close < day1.open
         /\ 2 * Abs(day2.close - day2.open) < Abs(day1.close - day1.open)
    ELSE /\ day1.close > day1.open
         /\ day2.close < day2.open
         /\ day2.open < day1.close
         /\ day2.close > day1.open
         /\ 2 * Abs(day2.close - day2.open) < Abs(day1.close - day1.open)

\* price_diff_threshold = (high - low) * 0.001, multiplied out
is_tweezer(day1, day2, bullish) ==
    IF bullish
    THEN /\ day1.close < day1.open
         /\ day2.close > day2.open
         /\ 1000 * Abs(day1.low - day2.low) <= day1.high - day1.low
    ELSE /\ day1.close > day1.open
         /\ day2.close < day2.open
         /\ 1000 * Abs(day1.high - day2.high) <= day1.high - day1.low

\* mid_point = (open + close) / 2, multiplied out
is_piercing_line(day1, day2) ==
    /\ day1.close < day1.open
    /\ day2.close > day2.open
    /\ day2.open < day1.close
    /\ 2 * day2.close > day1.open + day1.close

is_dark_cloud_cover(day1, day2) ==
    /\ day1.close > day1.open
    /\ day2.close < day2.open
    /\ day2.open > day1.close
    /\ 2 * day2.close < day1.open + day1.close

is_inside_bar(day1, day2) ==
    /\ day2.high < day1.high
    /\ day2.low > day1.low

is_outside_bar(day1, day2) ==
    /\ day2.high > day1.high
    /\ day2.low < day1.low

is_gap(day1, day2, bullish) ==
    IF bullish THEN day2.low > day1.high ELSE day2.high < day1.low

is_flat_top_bottom(day1, day2, is_top) ==
    IF is_top
    THEN 1000 * Abs(day1.high - day2.high) <= day1.high - day1.low
    ELSE 1000 * Abs(day1.low - day2.low) <= day1.high - day1.low

-----------------------------------------------------------------------------
(* candlestick_analyzer.py: the three-, four- and five-day predicates, on  *)
(* a sequence of rows (days.iloc[i] is days[i+1]).                         *)

is_morning_star(days) ==
    IF Len(days) < 3 THEN FALSE
    ELSE LET day1 == days[1]  day2 == days[2]  day3 == days[3]
         IN  /\ day1.close < day1.open
             /\ 10 * Abs(day2.close - day2.open) < 3 * (day2.high - day2.low)
             /\ day3.close > day3.open
             /\ day2.high < day1.close
             /\ 2 * day3.close > day1.open + day1.close

is_evening_star(days) ==
    IF Len(days) < 3 THEN FALSE
    ELSE LET day1 == days[1]  day2 == days[2]  day3 == days[3]
         IN  /\ day1.close > day1.open
             /\ 10 * Abs(day2.close - day2.open) < 3 * (day2.high - day2.low)
             /\ day3.close < day3.open
             /\ day2.low > day1.close
             /\ 2 * day3.close < day1.open + day1.close

is_three_white_soldiers(days) ==
    IF Len(days) < 3 THEN FALSE
    ELSE \A i \in 1..3 :
            /\ days[i].close > days[i].open
            /\ (i = 1 \/ days[i].close > days[i-1].close)
            /\ (i = 1 \/ days[i].open > days[i-1].open)

is_three_black_crows(days) ==
    IF Len(days) < 3 THEN FALSE
    ELSE \A i \in 1..3 :
            /\ days[i].close < days[i].open
            /\ (i = 1 \/ days[i].close < days[i-1].close)
            /\ (i = 1 \/ days[i].open < days[i-1].open)

\* returns the pair (bullish, bearish)
is_three_inside(days) ==
    IF Len(days) < 3 THEN <<FALSE, FALSE>>
    ELSE LET day1 == days[1]  day2 == days[2]  day3 == days[3]
             bullish == /\ is_inside_bar(day1, day2)
                        /\ day1.close < day1.open
                        /\ day3.close > day3.open
                        /\ day3.close > day2.high
             bearish == /\ is_inside_bar(day1, day2)
                        /\ day1.close > day1.open
                        /\ day3.close < day3.open
                        /\ day3.close < day2.low
         IN  <<bullish, bearish>>

is_three_outside(days) ==
    IF Len(days) < 3 THEN <<FALSE, FALSE>>
    ELSE LET day1 == days[1]  day2 == days[2]  day3 == days[3]
             bullish == /\ is_outside_bar(day1, day2)
                        /\ day1.close < day1.open
                        /\ day2.close > day2.open
                        /\ day3.close > day3.open
                        /\ day3.close > day2.high
             bearish == /\ is_outside_bar(day1, day2)
                        /\ day1.close > day1.open
                        /\ day2.close < day2.open
                        /\ day3.close < day3.open
                        /\ day3.close < day2.low
         IN  <<bullish, bearish>>

is_three_mountains(days) ==
    IF Len(days) < 3 THEN FALSE
    ELSE /\ days[2].high > days[1].high
         /\ days[2].high > days[3].high
         /\ 10 * Abs(days[1].high - days[3].high) <= days[1].high - days[1].low

is_three_rivers(days) ==
    IF Len(days) < 3 THEN FALSE
    ELSE /\ days[2].low < days[1].low
         /\ days[2].low < days[3].low
         /\ 10 * Abs(days[1].low - days[3].low) <= days[1].high - days[1].low

is_three_stars(days) ==
    IF Len(days) < 3 THEN FALSE
    ELSE \A i \in 1..3 : is_doji(days[i])

is_island_reversal(days, bullish) ==
    IF Len(days) < 3 THEN FALSE
    ELSE LET day1 == days[1]  day2 == days[2]  day3 == days[3]
         IN  IF bullish
             THEN day2.low > day1.high /\ day3.high < day2.low
             ELSE day2.high < day1.low /\ day3.low > day2.high

\* returns the pair (bullish, bearish)
is_three_line_strike(days) ==
    IF Len(days) < 4 THEN <<FALSE, FALSE>>
    ELSE LET bullish == \A i \in 1..3 : days[i].close < days[i].open
             bearish == \A i \in 1..3 : days[i].close > days[i].open
         IN  IF bullish
             THEN << days[4].close > days[4].open /\ days[4].close > days[1].open,
                     FALSE >>
             ELSE IF bearish
             THEN << FALSE,
                     days[4].close < days[4].open /\ days[4].close < days[1].open >>
             ELSE <<FALSE, FALSE>>

is_rising_three_methods(days) ==
    IF Len(days) < 5 THEN FALSE
    ELSE LET day1 == days[1]  day5 == days[5]
             middle_days == SubSeq(days, 2, 4)
         IN  /\ day1.close > day1.open
             /\ day5.close > day5.open
             /\ day5.close > day1.close
             /\ \A i \in 1..Len(middle_days) :
                    middle_days[i].close < middle_days[i].open
             /\ \A i \in 1..Len(middle_days) : middle_days[i].low > day1.open

is_falling_three_methods(days) ==
    IF Len(days) < 5 THEN FALSE
    ELSE LET day1 == days[1]  day5 == days[5]
             middle_days == SubSeq(days, 2, 4)
         IN  /\ day1.close < day1.open
             /\ day5.close < day5.open
             /\ day5.close < day1.close
             /\ \A i \in 1..Len(middle_days) :
                    middle_days[i].close > middle_days[i].open
             /\ \A i \in 1..Len(middle_days) : middle_days[i].high < day1.open

-----------------------------------------------------------------------------
(* candlestick_analyzer.py: analyze_candlestick_patterns.                  *)
(*                                                                         *)
(* The labels of the source are Chinese strings; the model names them in   *)
(* ASCII.  Types: "today", "two_day", "three_day", "four_day", "five_day"  *)
(* (lines 62-66).  Suggestions: "strong_bullish" (line 450), "bullish"     *)
(* (452), "strong_bearish" (455), "bearish" (457), "ranging" (459),        *)
(* "no_clear_signal" (462).  Pattern names follow the predicate names.     *)

\* mutant of tail: the first k rows instead of the last k (head for tail)
head_rows(df, k) == SubSeq(df, 1, Min(k, Len(df)))

\* DataFrame.tail(k): the last min(k, len) rows, in order
tail(df, k) == SubSeq(df, Max(1, Len(df) - k + 1), Len(df))

\* mutant of pattern_weights: a four-day pattern weighs 6
pattern_weights_heavy ==
    [today |-> 1, two_day |-> 2, three_day |-> 3, four_day |-> 6, five_day |-> 5]

pattern_weights ==
    [today |-> 1, two_day |-> 2, three_day |-> 3, four_day |-> 4, five_day |-> 5]

\* "if <predicate>: <list>.append({...})": the appended entry, or nothing
candidate(matched, type, pattern, priority, is_bullish) ==
    IF matched
    THEN << [type |-> type, pattern |-> pattern,
             priority |-> priority, is_bullish |-> is_bullish] >>
    ELSE << >>

\* lines 123-220: the two-day candidates in the order they are appended
two_day_patterns(prev_day, latest_day) ==
    candidate(is_bullish_engulfing(prev_day, latest_day),
              "two_day", "bullish_engulfing", 5, TRUE)
    \o candidate(is_bearish_engulfing(prev_day, latest_day),
              "two_day", "bearish_engulfing", 5, FALSE)
    \o candidate(is_harami(prev_day, latest_day, TRUE),
              "two_day", "bullish_harami", 4, TRUE)
    \o candidate(is_harami(prev_day, latest_day, FALSE),
              "two_day", "bearish_harami", 4, FALSE)
    \o candidate(is_piercing_line(prev_day, latest_day),
              "two_day", "piercing_line", 4, TRUE)
    \o candidate(is_dark_cloud_cover(prev_day, latest_day),
              "two_day", "dark_cloud_cover", 4, FALSE)
    \o candidate(is_tweezer(prev_day, latest_day, TRUE),
              "two_day", "tweezer_bottom", 3, TRUE)
    \o candidate(is_tweezer(prev_day, latest_day, FALSE),
              "two_day", "tweezer_top", 3, FALSE)
    \o candidate(is_gap(prev_day, latest_day, TRUE),
              "two_day", "gap_up", 3, TRUE)
    \o candidate(is_gap(prev_day, latest_day, FALSE),
              "two_day", "gap_down", 3, FALSE)
    \o candidate(is_flat_top_bottom(prev_day, latest_day, TRUE),
              "two_day", "flat_top", 2, FALSE)
    \o candidate(is_flat_top_bottom(prev_day, latest_day, FALSE),
              "two_day", "flat_bottom", 2, TRUE)

\* lines 242-347: the three-day candidates in the order they are appended
three_day_patterns(three_days) ==
    candidate(is_morning_star(three_days),
              "three_day", "morning_star", 5, TRUE)
    \o candidate(is_evening_star(three_days),
              "three_day", "evening_star", 5, FALSE)
    \o candidate(is_three_white_soldiers(three_days),
              "three_day", "three_white_soldiers", 4, TRUE)
    \o candidate(is_three_black_crows(three_days),
              "three_day", "three_black_crows", 4, FALSE)
    \o candidate(is_three_inside(three_days)[1],
              "three_day", "bullish_three_inside", 3, TRUE)
    \o candidate(is_three_inside(three_days)[2],
              "three_day", "bearish_three_inside", 3, FALSE)
    \o candidate(is_three_outside(three_days)[1],
              "three_day", "bullish_three_outside", 3, TRUE)
    \o candidate(is_three_outside(three_days)[2],
              "three_day", "bearish_three_outside", 3, FALSE)
    \o candidate(is_three_mountains(three_days),
              "three_day", "three_mountains", 4, FALSE)
    \o candidate(is_three_rivers(three_days),
              "three_day", "three_rivers", 4, TRUE)
    \o candidate(is_three_stars(three_days),
              "three_day", "three_stars", 3, TRUE)
    \o candidate(is_island_reversal(three_days, TRUE),
              "three_day", "bullish_island_reversal", 5, TRUE)
    \o candidate(is_island_reversal(three_days, FALSE),
              "three_day", "bearish_island_reversal", 5, FALSE)

\* lines 369-385
four_day_patterns(four_days) ==
    candidate(is_three_line_strike(four_days)[1],
              "four_day", "bullish_three_line_strike", 4, TRUE)
    \o candidate(is_three_line_strike(four_days)[2],
              "four_day", "bearish_three_line_strike", 4, FALSE)

\* lines 406-422
five_day_patterns(recent_data) ==
    candidate(is_rising_three_methods(recent_data),
              "five_day", "rising_three_methods", 5, TRUE)
    \o candidate(is_falling_three_methods(recent_data),
              "five_day", "falling_three_methods", 5, FALSE)

\* one step of a stable descending sort: x goes behind every entry whose
\* priority is at least its own
insert_by_priority(sorted, x) ==
    LET k == Cardinality({i \in 1..Len(sorted) : sorted[i].priority >= x.priority})
    IN  SubSeq(sorted, 1, k) \o <<x>> \o SubSeq(sorted, k + 1, Len(sorted))

RECURSIVE sort_ascending(_)
\* mutant of sort_by_priority: reverse=True forgotten (ascending, stable)
sort_ascending(patterns) ==
    IF patterns = << >> THEN << >>
    ELSE LET rest == sort_ascending(SubSeq(patterns, 1, Len(patterns) - 1))
             x == patterns[Len(patterns)]
             k == Cardinality({i \in 1..Len(rest) : rest[i].priority <= x.priority})
         IN  SubSeq(rest, 1, k) \o <<x>> \o SubSeq(rest, k + 1, Len(rest))

RECURSIVE sort_by_priority(_)
\* list.sort(key=lambda x: x["priority"], reverse=True): stable, descending
sort_by_priority(patterns) ==
    IF patterns = << >> THEN << >>
    ELSE insert_by_priority(sort_by_priority(SubSeq(patterns, 1, Len(patterns) - 1)),
                            patterns[Len(patterns)])

\* The counters of analyze_candlestick_patterns (lines 54-72).
empty_tally ==
    [patterns |-> << >>, total_weight |-> 0, bullish_count |-> 0, bearish_count |-> 0]

\* a single-day check (lines 81-116): append, add the weight, count the polarity
add_single(acc, matched, pattern, bullish, bearish) ==
    IF matched
    THEN [patterns |-> Append(acc.patterns, [type |-> "today", pattern |-> pattern]),
          total_weight |-> acc.total_weight + pattern_weights["today"],
          bullish_count |-> acc.bullish_count + bullish,
          bearish_count |-> acc.bearish_count + bearish]
    ELSE acc

\* add_selected with every retained pattern weighing 1
add_selected_unit(acc, candidates, type) ==
    IF candidates # << >>
    THEN LET selected_pattern == sort_by_priority(candidates)[1]
             w == pattern_weights[type]
         IN  [patterns |-> Append(acc.patterns,
                                  [type |-> selected_pattern.type,
                                   pattern |-> selected_pattern.pattern]),
              total_weight |-> acc.total_weight + 1,
              bullish_count |-> acc.bullish_count
                                + (IF selected_pattern.is_bullish THEN w ELSE 0),
              bearish_count |-> acc.bearish_count
                                + (IF selected_pattern.is_bullish THEN 0 ELSE w)]
    ELSE acc

\* "if <candidates>: sort, take [0], append, add weight and polarity"
\* (lines 223-237, 350-364, 388-402, 425-439)
add_selected(acc, candidates, type) ==
    IF candidates # << >>
    THEN LET selected_pattern == sort_by_priority(candidates)[1]
             w == pattern_weights[type]
         IN  [patterns |-> Append(acc.patterns,
                                  [type |-> selected_pattern.type,
                                   pattern |-> selected_pattern.pattern]),
              total_weight |-> acc.total_weight + w,
              bullish_count |-> acc.bullish_count
                                + (IF selected_pattern.is_bullish THEN w ELSE 0),
              bearish_count |-> acc.bearish_count
                                + (IF selected_pattern.is_bullish THEN 0 ELSE w)]
    ELSE acc

\* single_day_tally with the eight checks chained as alternatives, so that
\* only the first match is kept
single_day_tally_first(latest_day) ==
    IF is_doji(latest_day)
       THEN add_single(empty_tally, TRUE, "doji", 0, 0)
    ELSE IF is_long_legged_doji(latest_day)
       THEN add_single(empty_tally, TRUE, "long_legged_doji", 0, 0)
    ELSE IF is_gravestone_doji(latest_day)
       THEN add_single(empty_tally, TRUE, "gravestone_doji", 0, 1)
    ELSE IF is_spinning_top(latest_day)
       THEN add_single(empty_tally, TRUE, "spinning_top", 0, 0)
    ELSE IF is_hammer(latest_day)
       THEN add_single(empty_tally, TRUE, "hammer", 1, 0)
    ELSE IF is_inverted_hammer(latest_day)
       THEN add_single(empty_tally, TRUE, "inverted_hammer", 1, 0)
    ELSE IF is_hanging_man(latest_day)
       THEN add_single(empty_tally, TRUE, "hanging_man", 0, 1)
    ELSE add_single(empty_tally, is_shooting_star(latest_day), "shooting_star", 0, 1)

\* lines 74-116: the eight single-day checks on the latest bar
single_day_tally(latest_day) ==
    LET a1 == add_single(empty_tally, is_doji(latest_day), "doji", 0, 0)
        a2 == add_single(a1, is_long_legged_doji(latest_day), "long_legged_doji", 0, 0)
        a3 == add_single(a2, is_gravestone_doji(latest_day), "gravestone_doji", 0, 1)
        a4 == add_single(a3, is_spinning_top(latest_day), "spinning_top", 0, 0)
        a5 == add_single(a4, is_hammer(latest_day), "hammer", 1, 0)
        a6 == add_single(a5, is_inverted_hammer(latest_day), "inverted_hammer", 1, 0)
        a7 == add_single(a6, is_hanging_man(latest_day), "hanging_man", 0, 1)
    IN  add_single(a7, is_shooting_star(latest_day), "shooting_star", 0, 1)

\* lines 49-439: the counters when every group has been analysed;
\* recent_data.iloc[-k:] is tail(recent_data, k)
candlestick_tally(df) ==
    LET recent_data == tail(df, 5)
        n == Len(recent_data)
        latest_day == recent_data[n]
        t1 == single_day_tally(latest_day)
        t2 == IF n >= 2
              THEN add_selected(t1, two_day_patterns(recent_data[n-1], latest_day),
                                "two_day")
              ELSE t1
        t3 == IF n >= 3
              THEN add_selected(t2, three_day_patterns(tail(recent_data, 3)),
                                "three_day")
              ELSE t2
        t4 == IF n >= 4
              THEN add_selected(t3, four_day_patterns(tail(recent_data, 4)),
                                "four_day")
              ELSE t3
    IN  IF n >= 5
        THEN add_selected(t4, five_day_patterns(recent_data), "five_day")
        ELSE t4

\* mutant of candlestick_suggestion: the threshold applied to the star count
candlestick_suggestion_stars(t) ==
    LET s == clamp_strength(<<t.total_weight, Len(t.patterns)>>)
        stars == Cardinality({i \in 1..5 : convert_to_stars(s)[i] = "full"})
    IN  IF t.bullish_count > t.bearish_count
        THEN IF stars >= 4 THEN "strong_bullish" ELSE "bullish"
        ELSE IF t.bearish_count > t.bullish_count
        THEN IF stars >= 4 THEN "strong_bearish" ELSE "bearish"
        ELSE "ranging"

\* lines 444-459: strength = min(5, total_weight / len(patterns)) compared with 4
candlestick_suggestion(t) ==
    LET s == clamp_strength(<<t.total_weight, Len(t.patterns)>>)
    IN  IF t.bullish_count > t.bearish_count
        THEN IF s[1] >= 4 * s[2] THEN "strong_bullish" ELSE "bullish"
        ELSE IF t.bearish_count > t.bullish_count
        THEN IF s[1] >= 4 * s[2] THEN "strong_bearish" ELSE "bearish"
        ELSE "ranging"

\* lines 43-464
analyze_candlestick_patterns(df) ==
    IF Len(df) < 5
    THEN [error |-> "insufficient_data", status |-> "error"]
    ELSE LET t == candlestick_tally(df)
         IN  IF Len(t.patterns) > 0
             THEN [patterns |-> t.patterns,
                   strength |-> convert_to_stars(
                                   clamp_strength(<<t.total_weight, Len(t.patterns)>>)),
                   suggestion |-> candlestick_suggestion(t)]
             ELSE [patterns |-> t.patterns,
                   strength |-> Rep("empty", 5),
                   suggestion |-> "no_clear_signal"]

-----------------------------------------------------------------------------
(* Inputs.  The values are bounded; the program constants are not.         *)

MaxPrice == 6            \* prices of the grid bars are 0..MaxPrice
MaxStrengthNum == 24     \* numerators handed to convert_to_stars
MaxStrengthDen == 4      \* denominators handed to convert_to_stars
MaxCandleBars == 6       \* longest DataFrame handed to the candlestick analysis

NoBar == OHLC(0, 0, 0, 0)

\* The two bars the documentation works through, in tenths:
\* open=100.0 close=100.3 high=102.0 low=98.0, and
\* open=100 close=101 high=101.2 low=95.
DojiExample == OHLC(1000, 1003, 1020, 980)

HammerExample == OHLC(1000, 1010, 1012, 950)

\* every well-formed bar (low <= open, close <= high) on the price grid
GridBars(max_price) ==
    { b \in [open : 0..max_price, close : 0..max_price,
             high : 0..max_price, low : 0..max_price] :
        b.low <= Min(b.open, b.close) /\ Max(b.open, b.close) <= b.high }

\* The bars the candlestick windows are built from: a long bullish bar, a
\* small bearish bar and the bullish bar of the same range, a long bullish
\* bar that engulfs them, a doji, a bearish hammer, an inverted hammer and a
\* gravestone doji.
LongBull == OHLC(10, 20, 21, 9)

SmallBear == OHLC(19, 17, 19, 17)

SmallBull == OHLC(17, 19, 19, 17)

Engulfer == OHLC(14, 24, 24, 14)

DojiBar == OHLC(17, 17, 22, 12)

BearHammer == OHLC(18, 16, 18, 10)

InvHammer == OHLC(12, 14, 20, 12)

GravestoneBar == OHLC(15, 15, 30, 14)

CandleBars ==
    {LongBull, SmallBear, SmallBull, Engulfer, DojiBar, BearHammer, InvHammer,
     GravestoneBar}

\* bars older than the five the analysis looks at
OlderBars == {LongBull, BearHammer}

\* the last five bars of the series that are longer than five
RecentBars == {LongBull, BearHammer, SmallBear, SmallBull}

\* the windows, and five-bar windows that end in each bar of the grid
CandleSeries(max_len) ==
    UNION { [1..n -> CandleBars] : n \in 0..5 }
    \cup { <<LongBull, SmallBear, SmallBull, Engulfer, b>> : b \in GridBars(MaxPrice) }
    \cup UNION { { older \o recent : older \in [1..(n - 5) -> OlderBars],
                                     recent \in [1..5 -> RecentBars] } :
                 n \in 6..max_len }

StrengthInputs ==
    { <<num, den>> : num \in (-MaxStrengthNum)..MaxStrengthNum,
                     den \in 1..MaxStrengthDen }

-----------------------------------------------------------------------------
(* The single-bar predicates called on one bar.                            *)

InitBar ==
    /\ bar \in GridBars(MaxPrice) \cup {DojiExample, HammerExample}
    /\ series = << >>
    /\ labelling = "asc"
    /\ strength = <<0, 1>>
    /\ call = "none"
    /\ ret = FALSE
    /\ raised = "none"

Call_is_doji ==
    /\ call' = "is_doji"
    /\ ret' = is_doji(bar)
    /\ raised' = "none"
    /\ UNCHANGED <<series, labelling, bar, strength>>

Call_is_hammer ==
    /\ call' = "is_hammer"
    /\ ret' = is_hammer(bar)
    /\ raised' = "none"
    /\ UNCHANGED <<series, labelling, bar, strength>>

NextBar == Call_is_doji \/ Call_is_hammer

SpecBar == InitBar /\ [][NextBar]_vars

-----------------------------------------------------------------------------
(* convert_to_stars called on one strength.                                *)

InitStars ==
    /\ strength \in StrengthInputs
    /\ series = << >>
    /\ labelling = "asc"
    /\ bar = NoBar
    /\ call = "none"
    /\ ret = << >>
    /\ raised = "none"

Call_convert_to_stars ==
    /\ call' = "convert_to_stars"
    /\ ret' = convert_to_stars(strength)
    /\ raised' = "none"
    /\ UNCHANGED <<series, labelling, bar, strength>>

NextStars == Call_convert_to_stars

SpecStars == InitStars /\ [][NextStars]_vars

-----------------------------------------------------------------------------
(* analyze_candlestick_patterns called on one DataFrame.                   *)

InitCandle ==
    /\ series \in CandleSeries(MaxCandleBars)
    /\ labelling = "asc"
    /\ bar = NoBar
    /\ strength = <<0, 1>>
    /\ call = "none"
    /\ ret = [status |-> "none"]
    /\ raised = "none"

Call_analyze_candlestick_patterns ==
    /\ call' = "analyze_candlestick_patterns"
    /\ ret' = analyze_candlestick_patterns(series)
    /\ raised' = "none"
    /\ UNCHANGED <<series, labelling, bar, strength>>

NextCandle == Call_analyze_candlestick_patterns

SpecCandle == InitCandle /\ [][NextCandle]_vars

-----------------------------------------------------------------------------
(* Properties of the candlestick analysis (SpecCandle).                    *)

Analysed == call = "analyze_candlestick_patterns"

\* the five most recent rows of the DataFrame, read by position from the end
Last5 == [i \in 1..5 |-> series[Len(series) - 5 + i]]

Groups == {"two_day", "three_day", "four_day", "five_day"}

GroupSize(g) ==
    CASE g = "two_day" -> 2 [] g = "three_day" -> 3
      [] g = "four_day" -> 4 [] g = "five_day" -> 5

\* every pattern of group g that matches on the last GroupSize(g) rows
Matched(g) ==
    CASE g = "two_day" -> two_day_patterns(Last5[4], Last5[5])
      [] g = "three_day" -> three_day_patterns(<<Last5[3], Last5[4], Last5[5]>>)
      [] g = "four_day" -> four_day_patterns(<<Last5[2], Last5[3], Last5[4], Last5[5]>>)
      [] g = "five_day" -> five_day_patterns(Last5)

\* c[i] has the greatest priority of c and is the first entry that has it
FirstBest(c, i) ==
    \A j \in 1..Len(c) :
        /\ c[j].priority <= c[i].priority
        /\ j < i => c[j].priority < c[i].priority

Kept(g) == {k \in 1..Len(ret.patterns) : ret.patterns[k].type = g}

\* what group g adds to the bullish (polarity TRUE) or bearish counter
GroupCount(g, polarity) ==
    IF \E i \in 1..Len(Matched(g)) :
           FirstBest(Matched(g), i) /\ Matched(g)[i].is_bullish = polarity
    THEN GroupSize(g) ELSE 0

Bit(p) == IF p THEN 1 ELSE 0

FilledStars(stars) == Cardinality({i \in 1..Len(stars) : stars[i] = "full"})

\* C4: analyze_candlestick_patterns returns the error result (status
\* "error", an error message, no patterns, strength or suggestion) if and
\* only if the DataFrame has fewer than 5 rows; with 5 or more rows it
\* returns patterns, strength and suggestion, and they are those of the last
\* 5 rows alone.
C4_ErrorIffShort ==
    Analysed =>
        /\ raised = "none"
        /\ Len(series) < 5 <=> DOMAIN ret = {"error", "status"}
        /\ Len(series) < 5 => ret.status = "error"
        /\ Len(series) >= 5 =>
              /\ DOMAIN ret = {"patterns", "strength", "suggestion"}
              /\ ret = analyze_candlestick_patterns(Last5)

C4_Witness ==
    /\ Analysed
    /\ Len(series) > 5
    /\ series[1] # series[Len(series) - 4]
    /\ ret.patterns # << >>

\* C5: for each multi-day group at most one pattern is in the result; it is
\* a matching pattern of the greatest priority, the first registered among
\* those; only it adds to the bullish or bearish counter and to the weight.
C5_OnePerGroup ==
    (Analysed /\ Len(series) >= 5) =>
        LET t == candlestick_tally(series)
            latest == Last5[5]
        IN  /\ \A g \in Groups :
                  /\ Cardinality(Kept(g)) <= 1
                  /\ Matched(g) = << >> => Kept(g) = {}
                  /\ Matched(g) # << >> =>
                        \E k \in Kept(g), i \in 1..Len(Matched(g)) :
                            /\ FirstBest(Matched(g), i)
                            /\ ret.patterns[k].pattern = Matched(g)[i].pattern
            /\ t.bullish_count =
                  Bit(is_hammer(latest)) + Bit(is_inverted_hammer(latest))
                  + GroupCount("two_day", TRUE) + GroupCount("three_day", TRUE)
                  + GroupCount("four_day", TRUE) + GroupCount("five_day", TRUE)
            /\ t.bearish_count =
                  Bit(is_gravestone_doji(latest)) + Bit(is_hanging_man(latest))
                  + Bit(is_shooting_star(latest))
                  + GroupCount("two_day", FALSE) + GroupCount("three_day", FALSE)
                  + GroupCount("four_day", FALSE) + GroupCount("five_day", FALSE)
            /\ t.total_weight =
                  Cardinality(Kept("today"))
                  + 2 * Cardinality(Kept("two_day")) + 3 * Cardinality(Kept("three_day"))
                  + 4 * Cardinality(Kept("four_day")) + 5 * Cardinality(Kept("five_day"))

\* two matches of different priority and polarity in one group; the one of
\* the greater priority, registered first, is the one retained
C5_Witness ==
    /\ Analysed
    /\ Len(series) >= 5
    /\ \E i, j \in 1..Len(Matched("two_day")) :
          /\ i < j
          /\ Matched("two_day")[i].priority > Matched("two_day")[j].priority
          /\ Matched("two_day")[i].is_bullish # Matched("two_day")[j].is_bullish
          /\ \E k \in Kept("two_day") :
                ret.patterns[k].pattern = Matched("two_day")[i].pattern

-----------------------------------------------------------------------------
(* Properties of convert_to_stars (SpecStars).                             *)

-----------------------------------------------------------------------------
(* Properties of the single-bar predicates (SpecBar).                      *)

\* C8 as stated: is_hammer is true of the bar open=100, close=101,
\* high=101.2, low=95.
C8_HammerExampleHolds ==
    (call = "is_hammer" /\ bar = HammerExample) => ret = TRUE

\* C8 amended: is_hammer holds exactly when the lower shadow is at least
\* twice the body, the upper shadow at most 10% of the body and the body at
\* least 10% of the range; it is false of the bar open=100, close=101,
\* high=101.2, low=95, whose upper shadow 0.2 exceeds 10% of its body 1.
C8_HammerRule ==
    call = "is_hammer" =>
        LET b == Abs(bar.open - bar.close)
            up == bar.high - Max(bar.open, bar.close)
            lo == Min(bar.open, bar.close) - bar.low
        IN  /\ raised = "none"
            /\ ret <=> (lo >= 2 * b /\ 10 * up <= b /\ 10 * b >= bar.high - bar.low)
            /\ bar = HammerExample => ret = FALSE

C8_Witness ==
    /\ call = "is_hammer"
    /\ bar = HammerExample
    /\ ret = FALSE

\* C9: is_doji is true exactly when the body is at most 10% of the range and
\* both shadows are strictly greater than the body; it is true of
\* open=100.0, close=100.3, high=102.0, low=98.0 and false of every bar
\* whose range is zero.
C9_DojiRule ==
    call = "is_doji" =>
        LET b == Abs(bar.open - bar.close)
            up == bar.high - Max(bar.open, bar.close)
            lo == Min(bar.open, bar.close) - bar.low
        IN  /\ raised = "none"
            /\ ret <=> (10 * b <= bar.high - bar.low /\ up > b /\ lo > b)
            /\ bar = DojiExample => ret = TRUE
            /\ bar.high = bar.low => ret = FALSE

C9_Witness ==
    /\ call = "is_doji"
    /\ bar = DojiExample
    /\ ret = TRUE

-----------------------------------------------------------------------------
(* The indicator analyzers work on DataFrame windows.  A call either       *)
(* returns a value or raises; Return and Raise are the two outcomes, and   *)
(* an outcome that raised is passed on by whoever called (no analyzer      *)
(* catches anything).  Indicator columns are held in tenths: kdj_k = 505   *)
(* is 50.5, and the source's  abs(k - d) < 1  is  Abs(k - d) < 10.         *)
(*                                                                         *)
(* Labels, in ASCII for the Chinese strings of the source:                 *)
(*  MACD short-term signal (macd_analyzer.py:108-122): "golden_cross",     *)
(*   "death_cross", "red_growing", "red_shrinking", "green_growing",       *)
(*   "green_shrinking", "no_signal";                                       *)
(*  KDJ cross pattern (kdj_analyzer.py:115-126): "golden_cross_j",         *)
(*   "golden_cross", "death_cross_j", "death_cross", "cross_imminent",     *)
(*   "no_cross";                                                           *)
(*  RSI short-term signal (rsi_analyzer.py:122-136): "fast_above_slow",    *)
(*   "fast_below_slow", "enter_overbought", "enter_oversold",              *)
(*   "leave_overbought", "leave_oversold", "no_signal".                    *)

Return(v) == [exc |-> "none", val |-> v]

Raise(e) == [exc |-> e]

\* data.iloc[-k] raises IndexError unless the window has k rows
iloc_raises(data, k) == Len(data) < k

\* data.iloc[-k], k = 1 for the latest row
iloc_back(data, k) == data[Len(data) + 1 - k]

\* mutant of macd_analyze_short_term_signal: yesterday compared strictly
macd_short_term_signal_strict(data) ==
    IF iloc_raises(data, 1) \/ iloc_raises(data, 2) THEN Raise("IndexError")
    ELSE LET latest == iloc_back(data, 1)
             prev == iloc_back(data, 2)
         IN  Return(
             IF latest.macd_dif > latest.macd_dea /\ prev.macd_dif < prev.macd_dea
                THEN "golden_cross"
             ELSE IF latest.macd_dif < latest.macd_dea /\ prev.macd_dif > prev.macd_dea
                THEN "death_cross"
             ELSE IF latest.macd > 0 /\ latest.macd > prev.macd THEN "red_growing"
             ELSE IF latest.macd > 0 /\ latest.macd < prev.macd THEN "red_shrinking"
             ELSE IF latest.macd < 0 /\ latest.macd < prev.macd THEN "green_growing"
             ELSE IF latest.macd < 0 /\ latest.macd > prev.macd THEN "green_shrinking"
             ELSE "no_signal")

\* macd_analyzer.py: _analyze_short_term_signal
macd_analyze_short_term_signal(data) ==
    IF iloc_raises(data, 1) \/ iloc_raises(data, 2) THEN Raise("IndexError")
    ELSE LET latest == iloc_back(data, 1)
             prev == iloc_back(data, 2)
         IN  Return(
             IF latest.macd_dif > latest.macd_dea /\ prev.macd_dif <= prev.macd_dea
                THEN "golden_cross"
             ELSE IF latest.macd_dif < latest.macd_dea /\ prev.macd_dif >= prev.macd_dea
                THEN "death_cross"
             ELSE IF latest.macd > 0 /\ latest.macd > prev.macd THEN "red_growing"
             ELSE IF latest.macd > 0 /\ latest.macd < prev.macd THEN "red_shrinking"
             ELSE IF latest.macd < 0 /\ latest.macd < prev.macd THEN "green_growing"
             ELSE IF latest.macd < 0 /\ latest.macd > prev.macd THEN "green_shrinking"
             ELSE "no_signal")

\* kdj_analyze_cross_pattern with the J line confirming when it is level
\* with K
kdj_cross_pattern_level(data) ==
    IF iloc_raises(data, 1) \/ iloc_raises(data, 2) THEN Raise("IndexError")
    ELSE LET latest == iloc_back(data, 1)
             prev == iloc_back(data, 2)
         IN  Return(
             IF latest.kdj_k > latest.kdj_d /\ prev.kdj_k <= prev.kdj_d
                THEN IF latest.kdj_j >= latest.kdj_k
                     THEN "golden_cross_j" ELSE "golden_cross"
             ELSE IF latest.kdj_k < latest.kdj_d /\ prev.kdj_k >= prev.kdj_d
                THEN IF latest.kdj_j <= latest.kdj_k
                     THEN "death_cross_j" ELSE "death_cross"
             ELSE IF Abs(latest.kdj_k - latest.kdj_d) < 10 THEN "cross_imminent"
             ELSE "no_cross")

\* kdj_analyzer.py: _analyze_cross_pattern
kdj_analyze_cross_pattern(data) ==
    IF iloc_raises(data, 1) \/ iloc_raises(data, 2) THEN Raise("IndexError")
    ELSE LET latest == iloc_back(data, 1)
             prev == iloc_back(data, 2)
         IN  Return(
             IF latest.kdj_k > latest.kdj_d /\ prev.kdj_k <= prev.kdj_d
                THEN IF latest.kdj_j > latest.kdj_k
                     THEN "golden_cross_j" ELSE "golden_cross"
             ELSE IF latest.kdj_k < latest.kdj_d /\ prev.kdj_k >= prev.kdj_d
                THEN IF latest.kdj_j < latest.kdj_k
                     THEN "death_cross_j" ELSE "death_cross"
             ELSE IF Abs(latest.kdj_k - latest.kdj_d) < 10 THEN "cross_imminent"
             ELSE "no_cross")

\* rsi_analyzer.py: _analyze_short_term_signal
rsi_analyze_short_term_signal(data) ==
    IF iloc_raises(data, 1) \/ iloc_raises(data, 2) THEN Raise("IndexError")
    ELSE LET latest == iloc_back(data, 1)
             prev == iloc_back(data, 2)
         IN  Return(
             IF latest.rsi_6 > latest.rsi_12 /\ prev.rsi_6 <= prev.rsi_12
                THEN "fast_above_slow"
             ELSE IF latest.rsi_6 < latest.rsi_12 /\ prev.rsi_6 >= prev.rsi_12
                THEN "fast_below_slow"
             ELSE IF latest.rsi_6 > 800 /\ prev.rsi_6 <= 800 THEN "enter_overbought"
             ELSE IF latest.rsi_6 < 200 /\ prev.rsi_6 >= 200 THEN "enter_oversold"
             ELSE IF latest.rsi_6 < 800 /\ prev.rsi_6 >= 800 THEN "leave_overbought"
             ELSE IF latest.rsi_6 > 200 /\ prev.rsi_6 <= 200 THEN "leave_oversold"
             ELSE "no_signal")

-----------------------------------------------------------------------------
(* The short-term cross analyses called on one window.                     *)

MaxCrossBars == 2        \* longest window handed to a cross analysis

\* a row with every column the analyzers read, all at a neutral value
BaseRow ==
    [open |-> 100, close |-> 100, high |-> 100, low |-> 100,
     macd_dif |-> 0, macd_dea |-> 0, macd |-> 0,
     kdj_k |-> 500, kdj_d |-> 500, kdj_j |-> 500,
     rsi_6 |-> 500, rsi_12 |-> 500, rsi_24 |-> 500,
     boll_upper |-> 110, boll_mid |-> 100, boll_lower |-> 90]

MacdRows ==
    { [BaseRow EXCEPT !.macd_dif = a, !.macd_dea = b, !.macd = c] :
        a \in {-10, 0, 10}, b \in {-10, 0, 10}, c \in {-10, 0, 10} }

KdjRows ==
    { [BaseRow EXCEPT !.kdj_k = k, !.kdj_d = d, !.kdj_j = j] :
        k \in {495, 500, 520}, d \in {495, 500, 520}, j \in {490, 500, 530} }

RsiRows ==
    { [BaseRow EXCEPT !.rsi_6 = a, !.rsi_12 = b] :
        a \in {150, 200, 500, 800, 850}, b \in {200, 500, 800} }

CrossSeries(max_len) ==
    UNION { [1..n -> MacdRows] \cup [1..n -> KdjRows] \cup [1..n -> RsiRows] :
            n \in 0..max_len }

InitCross ==
    /\ series \in CrossSeries(MaxCrossBars)
    /\ labelling = "asc"
    /\ bar = NoBar
    /\ strength = <<0, 1>>
    /\ call = "none"
    /\ ret = "none"
    /\ raised = "none"

\* what a call leaves behind: the value returned, or the exception raised
Outcome(name, r) ==
    /\ call' = name
    /\ raised' = r.exc
    /\ ret' = IF r.exc = "none" THEN r.val ELSE "none"
    /\ UNCHANGED <<series, labelling, bar, strength>>

Call_macd_short_term_signal ==
    Outcome("macd_short_term_signal", macd_analyze_short_term_signal(series))

Call_kdj_cross_pattern ==
    Outcome("kdj_cross_pattern", kdj_analyze_cross_pattern(series))

Call_rsi_short_term_signal ==
    Outcome("rsi_short_term_signal", rsi_analyze_short_term_signal(series))

NextCross ==
    \/ Call_macd_short_term_signal
    \/ Call_kdj_cross_pattern
    \/ Call_rsi_short_term_signal

SpecCross == InitCross /\ [][NextCross]_vars

\* the fast line A and the slow line B of the analysis that was called
Fast(row) ==
    CASE call = "macd_short_term_signal" -> row.macd_dif
      [] call = "kdj_cross_pattern" -> row.kdj_k
      [] call = "rsi_short_term_signal" -> row.rsi_6

Slow(row) ==
    CASE call = "macd_short_term_signal" -> row.macd_dea
      [] call = "kdj_cross_pattern" -> row.kdj_d
      [] call = "rsi_short_term_signal" -> row.rsi_12

GoldenLabels == {"golden_cross", "golden_cross_j", "fast_above_slow"}

DeathLabels == {"death_cross", "death_cross_j", "fast_below_slow"}

Sign(x) == IF x > 0 THEN 1 ELSE IF x < 0 THEN -1 ELSE 0

CrossCalled ==
    /\ call \in {"macd_short_term_signal", "kdj_cross_pattern", "rsi_short_term_signal"}
    /\ Len(series) >= 2

\* C10: in the MACD, KDJ and RSI short-term analyses, with A the fast and B
\* the slow line, a golden-cross label is returned whenever A was at or below
\* B yesterday and is above it today, a death-cross label whenever A was at
\* or above B yesterday and is below it today, and neither when the sign of
\* A - B is the same on both days.
C10_CrossLabels ==
    CrossCalled =>
        LET today == series[Len(series)]
            yesterday == series[Len(series) - 1]
            dt == Fast(today) - Slow(today)
            dy == Fast(yesterday) - Slow(yesterday)
        IN  /\ raised = "none"
            /\ (dy <= 0 /\ dt > 0) => ret \in GoldenLabels
            /\ (dy >= 0 /\ dt < 0) => ret \in DeathLabels
            /\ Sign(dy) = Sign(dt) => ret \notin GoldenLabels \cup DeathLabels

\* the fast line was exactly on the slow line yesterday and is above it today
C10_Witness ==
    /\ CrossCalled
    /\ call = "macd_short_term_signal"
    /\ Fast(series[Len(series) - 1]) = Slow(series[Len(series) - 1])
    /\ Fast(series[Len(series)]) > Slow(series[Len(series)])
    /\ ret = "golden_cross"

-----------------------------------------------------------------------------
(* The aggregator, technical_indicators.py.  A DataFrame is its rows in    *)
(* positional order together with the row labels of its index.  iloc and   *)
(* tail go by position;  series[i]  on a column goes by label.             *)
(*                                                                         *)
(* Labels, in ASCII for the Chinese strings of the source:                 *)
(*  long-term trend (lines 116-123, the suffix "(40 days)" left out):      *)
(*   "strong_up", "up_weakening", "strong_down", "down_weakening",         *)
(*   "consolidating";                                                      *)
(*  medium-term trend (lines 136-141): "sideways", "rising", "weak_up",    *)
(*   "falling", "weak_down";                                               *)
(*  divergence (lines 181-190): "top_divergence", "bottom_divergence",     *)
(*   "no_divergence";                                                      *)
(*  strength (lines 204-209): "very_strong", "very_weak", "strong",        *)
(*   "weak", "normal";                                                     *)
(*  composite parts (lines 226-244): the divergence label, then one of     *)
(*   "bull_strengthening", "bull_weakening", "bear_strengthening",         *)
(*   "bear_weakening", "consolidating", then the strength label.           *)

DataFrame(rows, index) == [rows |-> rows, index |-> index]

\* frame_tail taking the first k rows (head for tail)
frame_head(df, k) == DataFrame(head_rows(df.rows, k), head_rows(df.index, k))

\* df.tail(k) on a frame: the last k rows, with the labels they carry
frame_tail(df, k) == DataFrame(tail(df.rows, k), tail(df.index, k))

\* data[c]: one column of a window, in positional order
Col(data, c) == [i \in 1..Len(data.rows) |-> data.rows[i][c]]

RECURSIVE SumSeq(_)
SumSeq(s) == IF s = <<>> THEN 0 ELSE s[1] + SumSeq(Tail(s))

\* sum of position times value, positions counted from 0 as np.arange does
RECURSIVE SumXY(_, _)
SumXY(s, x) == IF s = <<>> THEN 0 ELSE x * s[1] + SumXY(Tail(s), x + 1)

Squares(s) == [i \in 1..Len(s) |-> s[i] * s[i]]

\* n times the sum of squared deviations from the mean:  n*Sxx - (Sx)^2
Spread(s) == Len(s) * SumSeq(Squares(s)) - SumSeq(s) * SumSeq(s)

NaN == [nan |-> TRUE, num |-> 0, den |-> 1]

Ratio(num, den) == [nan |-> FALSE, num |-> num, den |-> den]

\* np.polyfit(np.arange(len(series)), series, 1)[0], the least-squares slope
\* as an exact ratio with a positive denominator.  On a single point the
\* scaled Vandermonde matrix holds 0/0: the LAPACK build either fails to
\* converge (LinAlgError) or hands back NaN, so  degenerate  is either.
polyfit_slope(column, degenerate) ==
    LET n == Len(column)
        xs == [i \in 1..n |-> i - 1]
    IN  IF n = 0 THEN Raise("TypeError")
        ELSE IF n = 1
             THEN IF degenerate = "raise" THEN Raise("LinAlgError") ELSE Return(NaN)
        ELSE Return(Ratio(n * SumXY(column, 0) - SumSeq(xs) * SumSeq(column),
                          Spread(xs)))

_calculate_trend_direction(column, degenerate) == polyfit_slope(column, degenerate)

_calculate_trend_slope(column, degenerate) == polyfit_slope(column, degenerate)

_analyze_macd_long_term_trend(data, degenerate) ==
    LET dif_trend == _calculate_trend_direction(Col(data, "macd_dif"), degenerate)
        dea_trend == _calculate_trend_direction(Col(data, "macd_dea"), degenerate)
        macd_sum == SumSeq(Col(data, "macd"))
    IN  IF dif_trend.exc # "none" THEN dif_trend
        ELSE IF dea_trend.exc # "none" THEN dea_trend
        ELSE Return(
             IF ~dif_trend.val.nan /\ dif_trend.val.num > 0
                /\ ~dea_trend.val.nan /\ dea_trend.val.num > 0
                THEN IF macd_sum > 0 THEN "strong_up" ELSE "up_weakening"
             ELSE IF ~dif_trend.val.nan /\ dif_trend.val.num < 0
                /\ ~dea_trend.val.nan /\ dea_trend.val.num < 0
                THEN IF macd_sum < 0 THEN "strong_down" ELSE "down_weakening"
             ELSE "consolidating")

\* the column is in tenths, so a slope of 0.1 is  num = den  and 0.3 is
\* num = 3 * den; every comparison with NaN is false
_analyze_macd_medium_term_trend(data, degenerate) ==
    LET slope == _calculate_trend_slope(Col(data, "macd"), degenerate)
    IN  IF slope.exc # "none" THEN slope
        ELSE LET s == slope.val
             IN  Return(
                 IF ~s.nan /\ Abs(s.num) < s.den THEN "sideways"
                 ELSE IF ~s.nan /\ s.num > 0
                      THEN IF s.num > 3 * s.den THEN "rising" ELSE "weak_up"
                 ELSE IF ~s.nan /\ s.num < -3 * s.den THEN "falling"
                 ELSE "weak_down")

_analyze_macd_short_term_signal(data) ==
    IF iloc_raises(data.rows, 1) \/ iloc_raises(data.rows, 2) THEN Raise("IndexError")
    ELSE LET latest == iloc_back(data.rows, 1)
             prev == iloc_back(data.rows, 2)
         IN  Return(
             IF latest.macd_dif > latest.macd_dea /\ prev.macd_dif <= prev.macd_dea
                THEN "golden_cross"
             ELSE IF latest.macd_dif < latest.macd_dea /\ prev.macd_dif >= prev.macd_dea
                THEN "death_cross"
             ELSE IF latest.macd > 0 /\ latest.macd > prev.macd THEN "red_growing"
             ELSE IF latest.macd > 0 /\ latest.macd < prev.macd THEN "red_shrinking"
             ELSE IF latest.macd < 0 /\ latest.macd < prev.macd THEN "green_growing"
             ELSE IF latest.macd < 0 /\ latest.macd > prev.macd THEN "green_shrinking"
             ELSE "no_signal")

\* series[i] looks the label i up in the index of the column
has_label(index, i) == \E p \in 1..Len(index) : index[p] = i

at_label(values, index, i) == values[CHOOSE p \in 1..Len(index) : index[p] = i]

\* the loop of _find_local_extremes from label i on; a label that is not in
\* the index raises KeyError, and  and  reads series[i+1] only when the
\* comparison with series[i-1] was true
RECURSIVE extremes_from(_, _, _, _, _)
extremes_from(values, index, is_high, i, extremes) ==
    IF i > Len(values) - 2 THEN Return(extremes)
    ELSE IF ~has_label(index, i) \/ ~has_label(index, i - 1) THEN Raise("KeyError")
    ELSE LET cur == at_label(values, index, i)
             before == at_label(values, index, i - 1)
             beyond(a, b) == IF is_high THEN a > b ELSE a < b
         IN  IF ~beyond(cur, before)
             THEN extremes_from(values, index, is_high, i + 1, extremes)
             ELSE IF ~has_label(index, i + 1) THEN Raise("KeyError")
             ELSE IF beyond(cur, at_label(values, index, i + 1))
                  THEN extremes_from(values, index, is_high, i + 1,
                                     Append(extremes, cur))
                  ELSE extremes_from(values, index, is_high, i + 1, extremes)

_find_local_extremes(values, index, is_high) ==
    extremes_from(values, index, is_high, 1, <<>>)

_analyze_macd_divergence(data) ==
    LET price_highs == _find_local_extremes(Col(data, "close"), data.index, TRUE)
        price_lows == _find_local_extremes(Col(data, "close"), data.index, FALSE)
        macd_highs == _find_local_extremes(Col(data, "macd"), data.index, TRUE)
        macd_lows == _find_local_extremes(Col(data, "macd"), data.index, FALSE)
        last(s) == s[Len(s)]
        last2(s) == s[Len(s) - 1]
    IN  IF price_highs.exc # "none" THEN price_highs
        ELSE IF price_lows.exc # "none" THEN price_lows
        ELSE IF macd_highs.exc # "none" THEN macd_highs
        ELSE IF macd_lows.exc # "none" THEN macd_lows
        ELSE Return(
             IF /\ Len(price_highs.val) >= 2 /\ Len(macd_highs.val) >= 2
                /\ last(price_highs.val) > last2(price_highs.val)
                /\ last(macd_highs.val) < last2(macd_highs.val)
                THEN "top_divergence"
             ELSE IF /\ Len(price_lows.val) >= 2 /\ Len(macd_lows.val) >= 2
                     /\ last(price_lows.val) < last2(price_lows.val)
                     /\ last(macd_lows.val) > last2(macd_lows.val)
                THEN "bottom_divergence"
             ELSE "no_divergence")

\* x > k * std(column), std with ddof = 1: NaN on a single row (no
\* comparison is true), else  x^2 * n * (n-1) > k^2 * Spread  for x >= 0
above_std(x, k, column) ==
    LET n == Len(column)
    IN  /\ n >= 2
        /\ x > 0
        /\ x * x * n * (n - 1) > k * k * Spread(column)

_analyze_macd_strength(data) ==
    IF iloc_raises(data.rows, 1) THEN Raise("IndexError")
    ELSE LET latest == iloc_back(data.rows, 1)
             current_strength == Abs(latest.macd)
         IN  Return(
             IF above_std(current_strength, 2, Col(data, "macd"))
                THEN IF latest.macd > 0 THEN "very_strong" ELSE "very_weak"
             ELSE IF above_std(current_strength, 1, Col(data, "macd"))
                THEN IF latest.macd > 0 THEN "strong" ELSE "weak"
             ELSE "normal")

\* _generate_macd_composite_signal with the falling branch tested first
macd_composite_falling_first(analysis) ==
    LET long_term == analysis.long_term_trend
        medium_term == analysis.medium_term_trend
        short_term == analysis.short_term_signal
        bull_bar == short_term \in {"golden_cross", "red_growing", "red_shrinking"}
        bear_bar == short_term \in {"death_cross", "green_growing", "green_shrinking"}
        divergence_part ==
            IF analysis.divergence # "no_divergence"
            THEN <<analysis.divergence>> ELSE <<>>
        trend_part ==
            IF long_term \in {"strong_down", "down_weakening"} \/ medium_term = "falling"
            THEN IF bear_bar THEN <<"bear_strengthening">>
                 ELSE IF bull_bar THEN <<"bear_weakening">>
                 ELSE <<>>
            ELSE IF long_term \in {"strong_up", "up_weakening"} \/ medium_term = "rising"
            THEN IF bull_bar THEN <<"bull_strengthening">>
                 ELSE IF bear_bar THEN <<"bull_weakening">>
                 ELSE <<>>
            ELSE <<"consolidating">>
    IN  divergence_part \o trend_part \o <<analysis.strength>>

\* the substring tests of the source, on the labels that contain them:
\* "up" in the long-term label or "rising" in the medium-term one, and so on
_generate_macd_composite_signal(analysis) ==
    LET long_term == analysis.long_term_trend
        medium_term == analysis.medium_term_trend
        short_term == analysis.short_term_signal
        bull_bar == short_term \in {"golden_cross", "red_growing", "red_shrinking"}
        bear_bar == short_term \in {"death_cross", "green_growing", "green_shrinking"}
        divergence_part ==
            IF analysis.divergence # "no_divergence"
            THEN <<analysis.divergence>> ELSE <<>>
        trend_part ==
            IF long_term \in {"strong_up", "up_weakening"} \/ medium_term = "rising"
            THEN IF bull_bar THEN <<"bull_strengthening">>
                 ELSE IF bear_bar THEN <<"bull_weakening">>
                 ELSE <<>>
            ELSE IF long_term \in {"strong_down", "down_weakening"}
                    \/ medium_term = "falling"
            THEN IF bear_bar THEN <<"bear_strengthening">>
                 ELSE IF bull_bar THEN <<"bear_weakening">>
                 ELSE <<>>
            ELSE <<"consolidating">>
    IN  divergence_part \o trend_part \o <<analysis.strength>>

_analyze_macd_comprehensive(df, long_term, medium_term, short_term, degenerate) ==
    LET long_term_trend == _analyze_macd_long_term_trend(long_term, degenerate)
        medium_term_trend == _analyze_macd_medium_term_trend(medium_term, degenerate)
        short_term_signal == _analyze_macd_short_term_signal(short_term)
        divergence == _analyze_macd_divergence(long_term)
        macd_strength == _analyze_macd_strength(medium_term)
    IN  IF long_term_trend.exc # "none" THEN long_term_trend
        ELSE IF medium_term_trend.exc # "none" THEN medium_term_trend
        ELSE IF short_term_signal.exc # "none" THEN short_term_signal
        ELSE IF divergence.exc # "none" THEN divergence
        ELSE IF macd_strength.exc # "none" THEN macd_strength
        ELSE LET result == [long_term_trend |-> long_term_trend.val,
                            medium_term_trend |-> medium_term_trend.val,
                            short_term_signal |-> short_term_signal.val,
                            divergence |-> divergence.val,
                            strength |-> macd_strength.val]
             IN  Return([long_term_trend |-> result.long_term_trend,
                         medium_term_trend |-> result.medium_term_trend,
                         short_term_signal |-> result.short_term_signal,
                         divergence |-> result.divergence,
                         strength |-> result.strength,
                         signal |-> _generate_macd_composite_signal(result)])

\* labels (lines 295-306): "strong_overbought", "overbought",
\* "strong_oversold", "oversold", "bullish_bias", "bearish_bias",
\* "consolidating";  k > k_mean + k_std  is  n*k - sum(k) > n * k_std
_analyze_kdj_trend(data) ==
    IF iloc_raises(data.rows, 1) THEN Raise("IndexError")
    ELSE LET latest == iloc_back(data.rows, 1)
             ks == Col(data, "kdj_k")
             lead == Len(ks) * latest.kdj_k - SumSeq(ks)
         IN  Return(
             IF latest.kdj_j > 1000
                THEN IF latest.kdj_j > 1100 THEN "strong_overbought" ELSE "overbought"
             ELSE IF latest.kdj_j < 0
                THEN IF latest.kdj_j < -100 THEN "strong_oversold" ELSE "oversold"
             ELSE IF above_std(lead, Len(ks), ks) THEN "bullish_bias"
             ELSE IF above_std(-lead, Len(ks), ks) THEN "bearish_bias"
             ELSE "consolidating")

\* pandas is_monotonic_increasing / is_monotonic_decreasing: equal
\* neighbours are allowed, and a column of one value is both
is_monotonic_increasing(s) == \A i \in 1..(Len(s) - 1) : s[i] <= s[i + 1]

is_monotonic_decreasing(s) == \A i \in 1..(Len(s) - 1) : s[i] >= s[i + 1]

\* the result is the level and the trend the formatted string is made of:
\* level "overbought", "oversold", "strong", "weak", "consolidating";
\* trend "rising", "falling", "ranging"
_analyze_rsi_trend(data) ==
    IF iloc_raises(data.rows, 1) THEN Raise("IndexError")
    ELSE LET latest == iloc_back(data.rows, 1)
             rsi6_trend == tail(Col(data, "rsi_6"), 5)
             trend == IF is_monotonic_increasing(rsi6_trend) THEN "rising"
                      ELSE IF is_monotonic_decreasing(rsi6_trend) THEN "falling"
                      ELSE "ranging"
         IN  Return([level |-> IF latest.rsi_6 > 800 THEN "overbought"
                               ELSE IF latest.rsi_6 < 200 THEN "oversold"
                               ELSE IF latest.rsi_6 > 600 THEN "strong"
                               ELSE IF latest.rsi_6 < 400 THEN "weak"
                               ELSE "consolidating",
                     trend |-> trend])

\* band widths (upper - lower) / mid * 100 are compared as ratios, the
\* middle band being a moving average of prices and so positive.  The
\* result is the position and the band-width trend the string is made of:
\* position "above_upper", "below_lower", "upper_half", "lower_half";
\* bandwidth "widening", "narrowing", "steady"
_analyze_boll_trend(data) ==
    IF iloc_raises(data.rows, 1) THEN Raise("IndexError")
    ELSE LET latest == iloc_back(data.rows, 1)
             recent == tail(data.rows, 5)
             width(i) == recent[i].boll_upper - recent[i].boll_lower
             mid(i) == recent[i].boll_mid
             steps == 1..(Len(recent) - 1)
             increasing == \A i \in steps : width(i) * mid(i + 1) <= width(i + 1) * mid(i)
             decreasing == \A i \in steps : width(i) * mid(i + 1) >= width(i + 1) * mid(i)
             bandwidth_trend == IF increasing THEN "widening"
                                ELSE IF decreasing THEN "narrowing"
                                ELSE "steady"
         IN  Return([position |-> IF latest.close > latest.boll_upper THEN "above_upper"
                                  ELSE IF latest.close < latest.boll_lower THEN "below_lower"
                                  ELSE IF latest.close > latest.boll_mid THEN "upper_half"
                                  ELSE "lower_half",
                     bandwidth |-> bandwidth_trend])

analyze_indicators(df, degenerate) ==
    LET long_term == frame_tail(df, 40)
        medium_term == frame_tail(df, 20)
        short_term == frame_tail(df, 10)
    IN  IF iloc_raises(df.rows, 1) THEN Raise("IndexError")
        ELSE LET latest == iloc_back(df.rows, 1)
                 macd_analysis ==
                     _analyze_macd_comprehensive(df, long_term, medium_term,
                                                 short_term, degenerate)
                 kdj_signal == _analyze_kdj_trend(medium_term)
                 rsi_signal == _analyze_rsi_trend(medium_term)
                 boll_signal == _analyze_boll_trend(medium_term)
             IN  IF macd_analysis.exc # "none" THEN macd_analysis
                 ELSE IF kdj_signal.exc # "none" THEN kdj_signal
                 ELSE IF rsi_signal.exc # "none" THEN rsi_signal
                 ELSE IF boll_signal.exc # "none" THEN boll_signal
                 ELSE Return(
                     [MACD |-> [DIF |-> latest.macd_dif,
                                DEA |-> latest.macd_dea,
                                MACD |-> latest.macd,
                                long_term_trend |-> macd_analysis.val.long_term_trend,
                                medium_term_trend |-> macd_analysis.val.medium_term_trend,
                                short_term_signal |-> macd_analysis.val.short_term_signal,
                                divergence |-> macd_analysis.val.divergence,
                                strength |-> macd_analysis.val.strength,
                                signal |-> macd_analysis.val.signal],
                      KDJ |-> [K |-> latest.kdj_k,
                               D |-> latest.kdj_d,
                               J |-> latest.kdj_j,
                               signal |-> kdj_signal.val],
                      RSI |-> [RSI6 |-> latest.rsi_6,
                               RSI12 |-> latest.rsi_12,
                               RSI24 |-> latest.rsi_24,
                               signal |-> rsi_signal.val],
                      BOLL |-> [UPPER |-> latest.boll_upper,
                                MID |-> latest.boll_mid,
                                LOWER |-> latest.boll_lower,
                                signal |-> boll_signal.val]])

-----------------------------------------------------------------------------
(* The aggregator called on one frame.  A series is a length and a shape:  *)
(* the shape gives every column of the row at position p.  The index is    *)
(* 0..n-1 in row order ("asc", a frame built in date order) or n-1..0      *)
(* ("desc", a frame fetched newest first and then sorted by date without   *)
(* resetting the index, as data_fetcher.py does).                          *)

MaxAggBars == 42         \* longest series handed to the aggregator

Shapes == {"flat", "up", "down", "zigzag", "cross"}

\* alternating sign, amplitude growing with the position
Zig(p) == IF p % 2 = 0 THEN p ELSE -p

\* a row of the fetched frame: the histogram is twice DIF - DEA, J is
\* 3K - 2D, the bands lie a half-width either side of the middle band
Row(close, dif, dea, k, d, rsi6, half_width) ==
    [open |-> close, close |-> close, high |-> close, low |-> close,
     macd_dif |-> dif, macd_dea |-> dea, macd |-> 2 * (dif - dea),
     kdj_k |-> k, kdj_d |-> d, kdj_j |-> 3 * k - 2 * d,
     rsi_6 |-> rsi6, rsi_12 |-> 500, rsi_24 |-> 500,
     boll_upper |-> 100 + half_width, boll_mid |-> 100,
     boll_lower |-> 100 - half_width]

ShapeRow(shape, p) ==
    CASE shape = "flat" -> Row(100, 0, 0, 500, 500, 500, 10)
      [] shape = "up" -> Row(100 + p, 2 * p, p, 500 + 10 * p, 500, 500 + 10 * p, 10 + p)
      [] shape = "down" -> Row(100 - p, -2 * p, -p, 500 - 10 * p, 500, 500 - 10 * p, 60 - p)
      [] shape = "zigzag" ->
            Row(100 + Zig(p), 0, Zig(60 - p), 500 + Zig(p), 500, 500 + Zig(p), 10)
      [] shape = "cross" ->
            Row(100 + (p % 3), IF p % 2 = 0 THEN 5 ELSE -5, 0, 500, 500 + (p % 2),
                500, 10 + (p % 2))

AggSeries(max_len) ==
    { [p \in 1..n |-> ShapeRow(shape, p)] : n \in 0..max_len, shape \in Shapes }

\* the index a series of n rows carries
Index(n, order) == [p \in 1..n |-> IF order = "asc" THEN p - 1 ELSE n - p]

InitAgg ==
    /\ series \in AggSeries(MaxAggBars)
    /\ labelling \in {"asc", "desc"}
    /\ bar = NoBar
    /\ strength = <<0, 1>>
    /\ call = "none"
    /\ ret = "none"
    /\ raised = "none"

Call_analyze_indicators ==
    \E degenerate \in {"raise", "nan"} :
        Outcome("analyze_indicators",
                analyze_indicators(DataFrame(series, Index(Len(series), labelling)),
                                   degenerate))

NextAgg == Call_analyze_indicators

SpecAgg == InitAgg /\ [][NextAgg]_vars

Aggregated == call = "analyze_indicators"

\* the windows the aggregator hands to the families
MediumTerm == frame_tail(DataFrame(series, Index(Len(series), labelling)), 20)

\* a family's own analysis, run by itself on the aggregator's input, returns
FamilyReturns(family) ==
    CASE family = "MACD" ->
            \A degenerate \in {"raise", "nan"} :
                LET df == DataFrame(series, Index(Len(series), labelling))
                IN  _analyze_macd_comprehensive(df, frame_tail(df, 40), frame_tail(df, 20),
                                                frame_tail(df, 10), degenerate).exc = "none"
      [] family = "KDJ" -> _analyze_kdj_trend(MediumTerm).exc = "none"
      [] family = "RSI" -> _analyze_rsi_trend(MediumTerm).exc = "none"
      [] family = "BOLL" -> _analyze_boll_trend(MediumTerm).exc = "none"

\* C1: whenever analyze_indicators returns, the result is a mapping whose
\* keys are exactly the six families MACD, KDJ, RSI, BOLL, MA and
\* Candlestick.  (The code builds four of them.)
C1_SixFamilies ==
    (Aggregated /\ raised = "none") =>
        DOMAIN ret = {"MACD", "KDJ", "RSI", "BOLL", "MA", "Candlestick"}

\* C2: on a series of a single bar, where no previous bar exists for the
\* crossover check, analyze_indicators returns (a result carrying an
\* insufficient-data marker) instead of raising.
C2_SingleBarDoesNotRaise ==
    (Aggregated /\ Len(series) = 1) => raised = "none"

\* C3: after analyze_indicators has run, every family whose own analysis
\* did not fail has its result in the output map.
C3_FamiliesIsolated ==
    Aggregated =>
        \A family \in {"MACD", "KDJ", "RSI", "BOLL"} :
            FamilyReturns(family) => (raised = "none" /\ family \in DOMAIN ret)

-----------------------------------------------------------------------------
(* The moving-average system, ma_system_analyzer.py.  A row carries the    *)
(* close, the volume and the moving averages the short-term analyses read. *)
(* The strength labels of a cross are "strong" and "normal" for the        *)
(* source's Chinese strings (lines 190, 200).                              *)

MaRow(close, vol, ma5, ma10, ma20, ma30) ==
    [close |-> close, vol |-> vol, ma_qfq_5 |-> ma5, ma_qfq_10 |-> ma10,
     ma_qfq_20 |-> ma20, ma_qfq_30 |-> ma30]

ma_pairs ==
    << <<"ma_qfq_5", "ma_qfq_10">>, <<"ma_qfq_5", "ma_qfq_20">>,
       <<"ma_qfq_10", "ma_qfq_20">>, <<"ma_qfq_20", "ma_qfq_30">> >>

\* the signal one pair of averages adds to the list: none or one
ma_pair_signal(latest, prev, pair) ==
    LET short_ma == pair[1]
        long_ma == pair[2]
        today_diff == latest[short_ma] - latest[long_ma]
        yesterday_diff == prev[short_ma] - prev[long_ma]
        cross_strength ==
            IF 2 * Abs(today_diff) > 3 * Abs(yesterday_diff) THEN "strong" ELSE "normal"
        signal(type) == [type |-> type, short_ma |-> short_ma, long_ma |-> long_ma,
                         strength |-> cross_strength, value |-> latest[short_ma],
                         diff |-> today_diff]
    IN  IF today_diff > 0 /\ yesterday_diff < 0 THEN <<signal("golden_cross")>>
        ELSE IF today_diff < 0 /\ yesterday_diff > 0 THEN <<signal("death_cross")>>
        ELSE <<>>

_analyze_ma_crossover(data) ==
    IF iloc_raises(data, 1) \/ iloc_raises(data, 2) THEN Raise("IndexError")
    ELSE LET latest == iloc_back(data, 1)
             prev == iloc_back(data, 2)
         IN  Return(ma_pair_signal(latest, prev, ma_pairs[1])
                    \o ma_pair_signal(latest, prev, ma_pairs[2])
                    \o ma_pair_signal(latest, prev, ma_pairs[3])
                    \o ma_pair_signal(latest, prev, ma_pairs[4]))

MaxMaBars == 2           \* longest window handed to the crossover analysis

MaCrossRows ==
    { MaRow(10, 100, ma5, ma10, ma20, ma30) :
        ma5 \in {9, 10, 12}, ma10 \in {10, 11}, ma20 \in {10, 11}, ma30 \in {10, 11} }

MaCrossSeries(max_len) == UNION { [1..n -> MaCrossRows] : n \in 0..max_len }

InitMa ==
    /\ series \in MaCrossSeries(MaxMaBars)
    /\ labelling = "asc"
    /\ bar = NoBar
    /\ strength = <<0, 1>>
    /\ call = "none"
    /\ ret = "none"
    /\ raised = "none"

Call_analyze_ma_crossover ==
    Outcome("analyze_ma_crossover", _analyze_ma_crossover(series))

NextMa == Call_analyze_ma_crossover

SpecMa == InitMa /\ [][NextMa]_vars

\* the cross of the given type is in the returned list for the pair
MaCrossRecorded(type, pair) ==
    \E i \in 1..Len(ret) :
        /\ ret[i].type = type
        /\ ret[i].short_ma = pair[1]
        /\ ret[i].long_ma = pair[2]

\* C11: for each of the four moving-average pairs a golden cross is recorded
\* exactly when diff_today > 0 and diff_yesterday <= 0, and a death cross
\* exactly when diff_today < 0 and diff_yesterday >= 0, equality of the two
\* averages yesterday included.  (The code compares yesterday strictly.)
C11_MaCrossIff ==
    (call = "analyze_ma_crossover" /\ Len(series) >= 2) =>
        /\ raised = "none"
        /\ \A p \in 1..Len(ma_pairs) :
            LET pair == ma_pairs[p]
                today == series[Len(series)]
                yesterday == series[Len(series) - 1]
                today_diff == today[pair[1]] - today[pair[2]]
                yesterday_diff == yesterday[pair[1]] - yesterday[pair[2]]
            IN  /\ MaCrossRecorded("golden_cross", pair)
                      <=> (today_diff > 0 /\ yesterday_diff <= 0)
                /\ MaCrossRecorded("death_cross", pair)
                      <=> (today_diff < 0 /\ yesterday_diff >= 0)

-----------------------------------------------------------------------------
(* Divergence in macd_analyzer.py and rsi_analyzer.py.  Both files carry   *)
(* their own copy of _find_local_extremes, the same loop as in             *)
(* technical_indicators.py.  The RSI labels (rsi_analyzer.py:151-160) are  *)
(* "top_divergence_sell", "bottom_divergence_buy" and "no_divergence".     *)

macd_find_local_extremes(values, index, is_high) ==
    extremes_from(values, index, is_high, 1, <<>>)

rsi_find_local_extremes(values, index, is_high) ==
    extremes_from(values, index, is_high, 1, <<>>)

\* mutant of macd_analyze_divergence: the top is decided on the lows and the
\* bottom on the highs
macd_divergence_swapped(data) ==
    LET price_highs == macd_find_local_extremes(Col(data, "close"), data.index, TRUE)
        price_lows == macd_find_local_extremes(Col(data, "close"), data.index, FALSE)
        macd_highs == macd_find_local_extremes(Col(data, "macd"), data.index, TRUE)
        macd_lows == macd_find_local_extremes(Col(data, "macd"), data.index, FALSE)
        last(s) == s[Len(s)]
        last2(s) == s[Len(s) - 1]
    IN  IF price_highs.exc # "none" THEN price_highs
        ELSE IF price_lows.exc # "none" THEN price_lows
        ELSE IF macd_highs.exc # "none" THEN macd_highs
        ELSE IF macd_lows.exc # "none" THEN macd_lows
        ELSE Return(
             IF /\ Len(price_lows.val) >= 2 /\ Len(macd_lows.val) >= 2
                /\ last(price_lows.val) < last2(price_lows.val)
                /\ last(macd_lows.val) > last2(macd_lows.val)
                THEN "top_divergence"
             ELSE IF /\ Len(price_highs.val) >= 2 /\ Len(macd_highs.val) >= 2
                     /\ last(price_highs.val) > last2(price_highs.val)
                     /\ last(macd_highs.val) < last2(macd_highs.val)
                THEN "bottom_divergence"
             ELSE "no_divergence")

\* macd_analyzer.py: _analyze_divergence
macd_analyze_divergence(data) ==
    LET price_highs == macd_find_local_extremes(Col(data, "close"), data.index, TRUE)
        price_lows == macd_find_local_extremes(Col(data, "close"), data.index, FALSE)
        macd_highs == macd_find_local_extremes(Col(data, "macd"), data.index, TRUE)
        macd_lows == macd_find_local_extremes(Col(data, "macd"), data.index, FALSE)
        last(s) == s[Len(s)]
        last2(s) == s[Len(s) - 1]
    IN  IF price_highs.exc # "none" THEN price_highs
        ELSE IF price_lows.exc # "none" THEN price_lows
        ELSE IF macd_highs.exc # "none" THEN macd_highs
        ELSE IF macd_lows.exc # "none" THEN macd_lows
        ELSE Return(
             IF /\ Len(price_highs.val) >= 2 /\ Len(macd_highs.val) >= 2
                /\ last(price_highs.val) > last2(price_highs.val)
                /\ last(macd_highs.val) < last2(macd_highs.val)
                THEN "top_divergence"
             ELSE IF /\ Len(price_lows.val) >= 2 /\ Len(macd_lows.val) >= 2
                     /\ last(price_lows.val) < last2(price_lows.val)
                     /\ last(macd_lows.val) > last2(macd_lows.val)
                THEN "bottom_divergence"
             ELSE "no_divergence")

\* rsi_analyzer.py: _analyze_divergence
rsi_analyze_divergence(data) ==
    LET price_highs == rsi_find_local_extremes(Col(data, "close"), data.index, TRUE)
        price_lows == rsi_find_local_extremes(Col(data, "close"), data.index, FALSE)
        rsi_highs == rsi_find_local_extremes(Col(data, "rsi_6"), data.index, TRUE)
        rsi_lows == rsi_find_local_extremes(Col(data, "rsi_6"), data.index, FALSE)
        last(s) == s[Len(s)]
        last2(s) == s[Len(s) - 1]
    IN  IF price_highs.exc # "none" THEN price_highs
        ELSE IF price_lows.exc # "none" THEN price_lows
        ELSE IF rsi_highs.exc # "none" THEN rsi_highs
        ELSE IF rsi_lows.exc # "none" THEN rsi_lows
        ELSE Return(
             IF /\ Len(price_highs.val) >= 2 /\ Len(rsi_highs.val) >= 2
                /\ last(price_highs.val) > last2(price_highs.val)
                /\ last(rsi_highs.val) < last2(rsi_highs.val)
                THEN "top_divergence_sell"
             ELSE IF /\ Len(price_lows.val) >= 2 /\ Len(rsi_lows.val) >= 2
                     /\ last(price_lows.val) < last2(price_lows.val)
                     /\ last(rsi_lows.val) > last2(rsi_lows.val)
                THEN "bottom_divergence_buy"
             ELSE "no_divergence")

MaxDivBars == 5          \* longest window handed to a divergence analysis

\* close and indicator of a row: flat, peaks that part, troughs that part
DivRow(close, indicator) ==
    [BaseRow EXCEPT !.open = 100 + close, !.close = 100 + close,
                    !.high = 100 + close, !.low = 100 + close,
                    !.macd = indicator, !.rsi_6 = 500 + indicator]

DivRows ==
    { DivRow(0, 0), DivRow(1, 2), DivRow(2, 1), DivRow(2, 2), DivRow(1, 0),
      DivRow(0, 1) }

DivSeries(max_len) == UNION { [1..n -> DivRows] : n \in 0..max_len }

\* the index of the window: 0..m-1, m-1..0, or the labels 1..m that the
\* tail of a frame one row longer keeps
WindowIndex(m, order) ==
    [p \in 1..m |-> IF order = "asc" THEN p - 1
                    ELSE IF order = "desc" THEN m - p
                    ELSE p]

InitDiv ==
    /\ series \in DivSeries(MaxDivBars)
    /\ labelling \in {"asc", "desc", "offset"}
    /\ bar = NoBar
    /\ strength = <<0, 1>>
    /\ call = "none"
    /\ ret = "none"
    /\ raised = "none"

Call_macd_divergence ==
    Outcome("macd_divergence",
            macd_analyze_divergence(
                DataFrame(series, WindowIndex(Len(series), labelling))))

Call_rsi_divergence ==
    Outcome("rsi_divergence",
            rsi_analyze_divergence(
                DataFrame(series, WindowIndex(Len(series), labelling))))

NextDiv ==
    \/ Call_macd_divergence
    \/ Call_rsi_divergence

SpecDiv == InitDiv /\ [][NextDiv]_vars

DivCalled == call \in {"macd_divergence", "rsi_divergence"}

\* the indicator column of the divergence analysis that was called
IndicatorColumn ==
    [i \in 1..Len(series) |->
        IF call = "macd_divergence" THEN series[i].macd ELSE series[i].rsi_6]

CloseColumn == [i \in 1..Len(series) |-> series[i].close]

\* interior positions above (below) both neighbours
LocalMaxima(column) ==
    { i \in 2..(Len(column) - 1) :
        column[i] > column[i - 1] /\ column[i] > column[i + 1] }

LocalMinima(column) ==
    { i \in 2..(Len(column) - 1) :
        column[i] < column[i - 1] /\ column[i] < column[i + 1] }

FewMaxima ==
    Cardinality(LocalMaxima(CloseColumn)) < 2
    \/ Cardinality(LocalMaxima(IndicatorColumn)) < 2

FewMinima ==
    Cardinality(LocalMinima(CloseColumn)) < 2
    \/ Cardinality(LocalMinima(IndicatorColumn)) < 2

\* C12 as stated: when the close or the indicator column of the window has
\* fewer than two local maxima, the result the MACD / RSI divergence
\* analysis returns is "no divergence".
C12_FewMaximaNoDivergence ==
    (DivCalled /\ FewMaxima /\ raised = "none") => ret = "no_divergence"

\* C12 amended: fewer than two local maxima in the close or the indicator
\* column rule out the top divergence, fewer than two local minima rule out
\* the bottom divergence, and the analysis that returns with both lacking
\* returns "no divergence".
C12_DivergenceNeedsTwoExtremes ==
    DivCalled =>
        /\ FewMaxima => ret \notin {"top_divergence", "top_divergence_sell"}
        /\ FewMinima => ret \notin {"bottom_divergence", "bottom_divergence_buy"}
        /\ (FewMaxima /\ FewMinima /\ raised = "none") => ret = "no_divergence"

\* one local maximum between two local minima, and the values diverge
C12_Witness ==
    /\ DivCalled
    /\ Cardinality(LocalMaxima(CloseColumn)) = 1
    /\ Cardinality(LocalMaxima(IndicatorColumn)) = 1
    /\ ~FewMinima
    /\ ret \in {"bottom_divergence", "bottom_divergence_buy"}

-----------------------------------------------------------------------------
(* The medium-term trend classifiers of macd_analyzer.py, rsi_analyzer.py  *)
(* and boll_analyzer.py.  A slope is an exact ratio of column units per    *)
(* bar; scale is the number of column units in 1.0, so that the source's   *)
(* slope > 0.3  is  num * 10 > 3 * den * scale.                            *)
(*                                                                         *)
(* Labels, in ASCII for the Chinese strings of the source:                 *)
(*  MACD (macd_analyzer.py:92-97): "sideways", "rising", "weak_up",        *)
(*   "falling", "weak_down";                                               *)
(*  RSI (rsi_analyzer.py:97-111) and BOLL (boll_analyzer.py:116-130):      *)
(*   "narrow_ranging", "wide_ranging", "fast_rising", "slow_rising",       *)
(*   "fast_falling", "slow_falling".                                       *)

\* data[c] on a window given as its rows
Column(rows, c) == [i \in 1..Len(rows) |-> rows[i][c]]

\* slope > p / q  and  slope < p / q ; false on NaN
slope_gt(s, p, q, scale) == ~s.nan /\ s.num * q > p * s.den * scale

slope_lt(s, p, q, scale) == ~s.nan /\ s.num * q < p * s.den * scale

\* abs(slope) < 0.1
slope_flat(s, scale) == slope_lt(s, 1, 10, scale) /\ slope_gt(s, -1, 10, scale)

macd_calculate_trend_slope(column, degenerate) == polyfit_slope(column, degenerate)

rsi_calculate_trend_slope(column, degenerate) == polyfit_slope(column, degenerate)

boll_calculate_trend_slope(column, degenerate) == polyfit_slope(column, degenerate)

\* mutant of macd_analyze_medium_term_trend: no sideways band round zero
macd_medium_term_trend_noband(data, degenerate, scale) ==
    LET slope == macd_calculate_trend_slope(Column(data, "macd"), degenerate)
    IN  IF slope.exc # "none" THEN slope
        ELSE Return(
             IF slope_gt(slope.val, 0, 1, scale)
                THEN IF slope_gt(slope.val, 3, 10, scale) THEN "rising" ELSE "weak_up"
             ELSE IF slope_lt(slope.val, 0, 1, scale)
                THEN IF slope_lt(slope.val, -3, 10, scale) THEN "falling" ELSE "weak_down"
             ELSE "sideways")

\* macd_analyzer.py: _analyze_medium_term_trend
macd_analyze_medium_term_trend(data, degenerate, scale) ==
    LET slope == macd_calculate_trend_slope(Column(data, "macd"), degenerate)
    IN  IF slope.exc # "none" THEN slope
        ELSE Return(
             IF slope_flat(slope.val, scale) THEN "sideways"
             ELSE IF slope_gt(slope.val, 0, 1, scale)
                THEN IF slope_gt(slope.val, 3, 10, scale) THEN "rising" ELSE "weak_up"
             ELSE IF slope_lt(slope.val, -3, 10, scale) THEN "falling"
             ELSE "weak_down")

RECURSIVE SeqMax(_)
SeqMax(s) == IF Len(s) = 1 THEN s[1] ELSE Max(s[1], SeqMax(Tail(s)))

RECURSIVE SeqMin(_)
SeqMin(s) == IF Len(s) = 1 THEN s[1] ELSE Min(s[1], SeqMin(Tail(s)))

\* rsi_analyze_medium_term_trend with the 0.3 thresholds made inclusive
rsi_medium_term_trend_inclusive(data, degenerate, scale) ==
    LET slope == rsi_calculate_trend_slope(Column(data, "rsi_6"), degenerate)
        rsi_range == SeqMax(Column(data, "rsi_6")) - SeqMin(Column(data, "rsi_6"))
    IN  IF slope.exc # "none" THEN slope
        ELSE Return(
             IF slope_flat(slope.val, scale)
                THEN IF rsi_range < 10 * scale THEN "narrow_ranging" ELSE "wide_ranging"
             ELSE IF slope_gt(slope.val, 0, 1, scale)
                THEN IF ~slope_lt(slope.val, 3, 10, scale)
                     THEN "fast_rising" ELSE "slow_rising"
             ELSE IF ~slope_gt(slope.val, -3, 10, scale) THEN "fast_falling"
             ELSE "slow_falling")

\* rsi_analyzer.py: _analyze_medium_term_trend;  rsi_range < 10  is
\* max - min < 10 * scale
rsi_analyze_medium_term_trend(data, degenerate, scale) ==
    LET slope == rsi_calculate_trend_slope(Column(data, "rsi_6"), degenerate)
        rsi_range == SeqMax(Column(data, "rsi_6")) - SeqMin(Column(data, "rsi_6"))
    IN  IF slope.exc # "none" THEN slope
        ELSE Return(
             IF slope_flat(slope.val, scale)
                THEN IF rsi_range < 10 * scale THEN "narrow_ranging" ELSE "wide_ranging"
             ELSE IF slope_gt(slope.val, 0, 1, scale)
                THEN IF slope_gt(slope.val, 3, 10, scale)
                     THEN "fast_rising" ELSE "slow_rising"
             ELSE IF slope_lt(slope.val, -3, 10, scale) THEN "fast_falling"
             ELSE "slow_falling")

\* boll_analyzer.py: _analyze_medium_term_trend.  The band width in percent
\* is (upper - lower) / mid * 100, a column in units of one percent; the
\* windows keep that quotient whole.
boll_analyze_medium_term_trend(data, degenerate, scale) ==
    LET bandwidth == [i \in 1..Len(data) |->
                         (100 * (data[i].boll_upper - data[i].boll_lower))
                             \div data[i].boll_mid]
        bandwidth_trend == boll_calculate_trend_slope(bandwidth, degenerate)
        mid_slope == boll_calculate_trend_slope(Column(data, "boll_mid"), degenerate)
    IN  IF bandwidth_trend.exc # "none" THEN bandwidth_trend
        ELSE IF mid_slope.exc # "none" THEN mid_slope
        ELSE Return(
             IF slope_flat(mid_slope.val, scale)
                THEN IF slope_flat(bandwidth_trend.val, 1)
                     THEN "narrow_ranging" ELSE "wide_ranging"
             ELSE IF slope_gt(mid_slope.val, 0, 1, scale)
                THEN IF slope_gt(mid_slope.val, 3, 10, scale)
                     THEN "fast_rising" ELSE "slow_rising"
             ELSE IF slope_lt(mid_slope.val, -3, 10, scale) THEN "fast_falling"
             ELSE "slow_falling")

-----------------------------------------------------------------------------
(* The medium-term classifiers called on one window.  The window is a walk *)
(* v(1) = 0, v(p+1) = v(p) + step(p) in hundredths: the MACD histogram is  *)
(* v, RSI6 is 50.00 + v (both 100 units to 1.0), the middle band is        *)
(* 100.0000 + v (10000 units to 1.0), and the bands lie half the width     *)
(* either side of it, the width being 2% of the middle band throughout or  *)
(* 2%, 4%, 6%, ... from bar to bar.                                        *)

MaxTrendBars == 4        \* longest window handed to a medium-term classifier

TrendSteps == {-1200, -40, -30, -10, -1, 0, 1, 10, 30, 40, 1200}

TrendRow(v, width_percent) ==
    LET mid == 1000000 + 100 * v
        half == (mid * width_percent) \div 200
    IN  [macd |-> v, rsi_6 |-> 5000 + v,
         boll_upper |-> mid + half, boll_mid |-> mid, boll_lower |-> mid - half]

TrendWalk(steps, widening) ==
    [p \in 1..(Len(steps) + 1) |->
        TrendRow(SumSeq(SubSeq(steps, 1, p - 1)), IF widening THEN 2 * p ELSE 2)]

TrendSeries(max_len) ==
    {<<>>} \cup
    { TrendWalk(steps, widening) :
        steps \in UNION { [1..k -> TrendSteps] : k \in 0..(max_len - 1) },
        widening \in BOOLEAN }

InitTrend ==
    /\ series \in TrendSeries(MaxTrendBars)
    /\ labelling = "asc"
    /\ bar = NoBar
    /\ strength = <<0, 1>>
    /\ call = "none"
    /\ ret = "none"
    /\ raised = "none"

Call_macd_medium_term_trend ==
    \E degenerate \in {"raise", "nan"} :
        Outcome("macd_medium_term_trend",
                macd_analyze_medium_term_trend(series, degenerate, 100))

Call_rsi_medium_term_trend ==
    \E degenerate \in {"raise", "nan"} :
        Outcome("rsi_medium_term_trend",
                rsi_analyze_medium_term_trend(series, degenerate, 100))

Call_boll_medium_term_trend ==
    \E degenerate \in {"raise", "nan"} :
        Outcome("boll_medium_term_trend",
                boll_analyze_medium_term_trend(series, degenerate, 10000))

NextTrend ==
    \/ Call_macd_medium_term_trend
    \/ Call_rsi_medium_term_trend
    \/ Call_boll_medium_term_trend

SpecTrend == InitTrend /\ [][NextTrend]_vars

TrendCalled ==
    call \in {"macd_medium_term_trend", "rsi_medium_term_trend",
              "boll_medium_term_trend"}

\* the column whose slope the called classifier labels, and its scale
TrendColumn ==
    CASE call = "macd_medium_term_trend" -> Column(series, "macd")
      [] call = "rsi_medium_term_trend" -> Column(series, "rsi_6")
      [] call = "boll_medium_term_trend" -> Column(series, "boll_mid")

TrendScale == IF call = "boll_medium_term_trend" THEN 10000 ELSE 100

\* the least-squares slope of the column, for windows of two rows or more
TrendSlope == polyfit_slope(TrendColumn, "nan").val

StrictlyIncreasing(column) == \A i \in 1..(Len(column) - 1) : column[i] < column[i + 1]

StrictlyDecreasing(column) == \A i \in 1..(Len(column) - 1) : column[i] > column[i + 1]

IsConstant(column) == \A i \in 1..(Len(column) - 1) : column[i] = column[i + 1]

RisingLabels == {"rising", "weak_up", "fast_rising", "slow_rising"}

FallingLabels == {"falling", "weak_down", "fast_falling", "slow_falling"}

SidewaysLabels == {"sideways", "narrow_ranging", "wide_ranging"}

\* C13 as stated: on a window of two rows or more, a strictly increasing
\* column gives a positive slope and a rising label, a strictly decreasing
\* one a negative slope and a falling label, a constant one the sideways
\* label.
C13_MonotoneWindowLabels ==
    (TrendCalled /\ Len(series) >= 2) =>
        /\ StrictlyIncreasing(TrendColumn) =>
              (TrendSlope.num > 0 /\ ret \in RisingLabels)
        /\ StrictlyDecreasing(TrendColumn) =>
              (TrendSlope.num < 0 /\ ret \in FallingLabels)
        /\ IsConstant(TrendColumn) => ret \in SidewaysLabels

\* C13 amended: on a window of two rows or more a strictly increasing column
\* gives a positive slope and a rising label unless the slope is below 0.1,
\* when the label is a sideways one; a strictly decreasing column mirrors
\* it; a constant column gives a sideways label.  A window of one row is
\* not fitted: the classifier raises LinAlgError or, on a NaN slope, returns
\* the slow falling label; an empty window raises TypeError.
C13_MonotoneWindowSlopes ==
    TrendCalled =>
        /\ Len(series) >= 2 =>
            /\ raised = "none"
            /\ StrictlyIncreasing(TrendColumn) =>
                  /\ TrendSlope.num > 0
                  /\ ret \in RisingLabels \cup SidewaysLabels
                  /\ ret \in SidewaysLabels <=> slope_lt(TrendSlope, 1, 10, TrendScale)
            /\ StrictlyDecreasing(TrendColumn) =>
                  /\ TrendSlope.num < 0
                  /\ ret \in FallingLabels \cup SidewaysLabels
                  /\ ret \in SidewaysLabels <=> slope_gt(TrendSlope, -1, 10, TrendScale)
            /\ IsConstant(TrendColumn) => ret \in SidewaysLabels
        /\ Len(series) = 1 =>
              (raised = "LinAlgError" \/ ret \in {"weak_down", "slow_falling"})
        /\ Len(series) = 0 => raised = "TypeError"

\* a strictly increasing window whose slope is below 0.1 was classified
C13_Witness ==
    /\ TrendCalled
    /\ Len(series) >= 3
    /\ StrictlyIncreasing(TrendColumn)
    /\ slope_lt(TrendSlope, 1, 10, TrendScale)
    /\ ret \in SidewaysLabels

-----------------------------------------------------------------------------
(* The thresholds of the medium-term classifiers.                          *)

FastRisingLabels == {"rising", "fast_rising"}

SlowRisingLabels == {"weak_up", "slow_rising"}

FastFallingLabels == {"falling", "fast_falling"}

SlowFallingLabels == {"weak_down", "slow_falling"}

\* C19: whenever a medium-term classifier of MACD, RSI or BOLL returns on a
\* window with a slope, the label is fixed by the slope alone: a sideways
\* label exactly when |slope| < 0.1, the fast rising label exactly when
\* slope > 0.3, the slow rising label exactly when 0.1 <= slope <= 0.3, the
\* fast falling label exactly when slope < -0.3 and the slow falling label
\* exactly when -0.3 <= slope <= -0.1.
C19_ExactThresholds ==
    (TrendCalled /\ Len(series) >= 2) =>
        /\ raised = "none"
        /\ ret \in SidewaysLabels <=> slope_flat(TrendSlope, TrendScale)
        /\ ret \in FastRisingLabels <=> slope_gt(TrendSlope, 3, 10, TrendScale)
        /\ ret \in SlowRisingLabels <=>
              (~slope_lt(TrendSlope, 1, 10, TrendScale)
                  /\ ~slope_gt(TrendSlope, 3, 10, TrendScale))
        /\ ret \in FastFallingLabels <=> slope_lt(TrendSlope, -3, 10, TrendScale)
        /\ ret \in SlowFallingLabels <=>
              (~slope_gt(TrendSlope, -1, 10, TrendScale)
                  /\ ~slope_lt(TrendSlope, -3, 10, TrendScale))

\* RSI6 rose by exactly 0.3 a bar over three bars or more and the window
\* was labelled slow rising
C19_Witness ==
    /\ call = "rsi_medium_term_trend"
    /\ Len(series) >= 3
    /\ TrendSlope.num * 10 = 3 * TrendSlope.den * TrendScale
    /\ ret = "slow_rising"

-----------------------------------------------------------------------------
(* The J line confirmation of the KDJ cross.                               *)

\* C20: when the KDJ cross analysis detects a golden cross (K at or below D
\* yesterday, above it today) the label carries the J line confirmation
\* exactly when today's J is above today's K; when it detects a death cross
\* it carries the confirmation exactly when today's J is below today's K;
\* a label with the confirmation is returned only on a cross.
C20_JConfirmation ==
    (call = "kdj_cross_pattern" /\ Len(series) >= 2) =>
        LET today == series[Len(series)]
            yesterday == series[Len(series) - 1]
            golden == today.kdj_k > today.kdj_d /\ yesterday.kdj_k <= yesterday.kdj_d
            death == today.kdj_k < today.kdj_d /\ yesterday.kdj_k >= yesterday.kdj_d
        IN  /\ raised = "none"
            /\ golden => /\ ret \in {"golden_cross", "golden_cross_j"}
                         /\ ret = "golden_cross_j" <=> today.kdj_j > today.kdj_k
            /\ death => /\ ret \in {"death_cross", "death_cross_j"}
                        /\ ret = "death_cross_j" <=> today.kdj_j < today.kdj_k
            /\ ret = "golden_cross_j" => golden
            /\ ret = "death_cross_j" => death

\* a golden cross on a day when J is level with K, returned unconfirmed
C20_Witness ==
    /\ call = "kdj_cross_pattern"
    /\ Len(series) >= 2
    /\ series[Len(series)].kdj_k > series[Len(series)].kdj_d
    /\ series[Len(series) - 1].kdj_k <= series[Len(series) - 1].kdj_d
    /\ series[Len(series)].kdj_j = series[Len(series)].kdj_k
    /\ ret = "golden_cross"

-----------------------------------------------------------------------------
(* The single-day patterns of the candlestick analysis (SpecCandle).       *)

SingleDayPatterns ==
    {"doji", "long_legged_doji", "gravestone_doji", "spinning_top", "hammer",
     "inverted_hammer", "hanging_man", "shooting_star"}

\* the single-day predicate that goes by the name p, on bar b
SingleDayHolds(p, b) ==
    CASE p = "doji" -> is_doji(b)
      [] p = "long_legged_doji" -> is_long_legged_doji(b)
      [] p = "gravestone_doji" -> is_gravestone_doji(b)
      [] p = "spinning_top" -> is_spinning_top(b)
      [] p = "hammer" -> is_hammer(b)
      [] p = "inverted_hammer" -> is_inverted_hammer(b)
      [] p = "hanging_man" -> is_hanging_man(b)
      [] p = "shooting_star" -> is_shooting_star(b)

\* the names of the single-day entries of the returned pattern list
KeptToday == {ret.patterns[k].pattern : k \in Kept("today")}

\* C17: on a DataFrame of five rows or more, every single-day predicate
\* that holds on the latest bar has its entry of type "today" in the
\* returned pattern list, once, whatever else matched; no single-day entry
\* is there without its predicate holding.
C17_SingleDayAllKept ==
    (Analysed /\ Len(series) >= 5) =>
        /\ \A p \in SingleDayPatterns :
              SingleDayHolds(p, series[Len(series)]) <=> p \in KeptToday
        /\ Cardinality(Kept("today")) = Cardinality(KeptToday)

\* two single-day patterns or more were kept next to a multi-day pattern
C17_Witness ==
    /\ Analysed
    /\ Len(series) >= 5
    /\ Cardinality(KeptToday) >= 2
    /\ \E g \in Groups : Kept(g) # {}

-----------------------------------------------------------------------------
(* The strength of the candlestick analysis (SpecCandle).                  *)

\* the sum, over the returned patterns, of the size of the pattern's group
RetainedWeight ==
    Cardinality(Kept("today")) + 2 * Cardinality(Kept("two_day"))
        + 3 * Cardinality(Kept("three_day")) + 4 * Cardinality(Kept("four_day"))
        + 5 * Cardinality(Kept("five_day"))

\* C18: on a DataFrame of five rows or more the strength string is the
\* star rendering of min(5, total_weight / n), n the number of returned
\* patterns and total_weight the sum of their group sizes (1 for a
\* single-day pattern, 2..5 for a 2..5-day pattern); with no returned
\* pattern it is five empty stars.
C18_StrengthIsMeanWeight ==
    (Analysed /\ Len(series) >= 5) =>
        IF Len(ret.patterns) = 0
        THEN ret.strength = Rep("empty", 5)
        ELSE LET mean == <<RetainedWeight, Len(ret.patterns)>>
                 capped == IF mean[1] > 5 * mean[2] THEN <<5, 1>> ELSE mean
             IN  ret.strength = convert_to_stars(capped)

\* three patterns or more of different group sizes were returned and their
\* mean weight is not a whole number
C18_Witness ==
    /\ Analysed
    /\ Len(series) >= 5
    /\ Len(ret.patterns) >= 3
    /\ Kept("today") # {}
    /\ RetainedWeight % Len(ret.patterns) # 0

-----------------------------------------------------------------------------
(* Strength and position computations whose denominator can be zero:       *)
(* kdj_analyzer.py _analyze_strength, boll_analyzer.py _analyze_strength,  *)
(* ma_system_analyzer.py _analyze_ma_breakthrough.  The operands are numpy *)
(* float64 values, whose division by zero does not raise: x / 0 is inf,    *)
(* -inf or nan by the sign of x, and every comparison with nan is False.   *)
(* Prices, bands and averages are in tenths, K, D and J in units.          *)
(*                                                                         *)
(* Labels: KDJ strength (lines 169-176) "very_strong", "strong", "medium", *)
(* "weak"; BOLL strength (lines 221-228) "very_strong" / "very_weak",      *)
(* "strong" / "weak", "slightly_strong" / "slightly_weak", "neutral".      *)

\* x / y on float64
fdiv(x, y) ==
    IF y # 0
    THEN [kind |-> "finite", num |-> IF y > 0 THEN x ELSE -x, den |-> Abs(y)]
    ELSE [kind |-> IF x > 0 THEN "inf" ELSE IF x < 0 THEN "-inf" ELSE "nan",
          num |-> 0, den |-> 1]

\* q > p / r  and  q < p / r  on float64, r positive
fgt(q, p, r) ==
    \/ q.kind = "inf"
    \/ q.kind = "finite" /\ q.num * r > p * q.den

flt(q, p, r) ==
    \/ q.kind = "-inf"
    \/ q.kind = "finite" /\ q.num * r < p * q.den

\* the whole part of the square root of v, v below bound squared
isqrt(v, bound) == CHOOSE r \in 0..bound : r * r <= v /\ v < (r + 1) * (r + 1)

\* the greatest common divisor; the quotient of the squares is reduced by
\* it before it is scaled
RECURSIVE GCD(_, _)
GCD(a, b) == IF b = 0 THEN a ELSE GCD(b, a % b)

\* abs(latest - column.mean()) / column.std() in hundredths, cut to a whole
\* number of them.  Series.std() is the sample deviation: nan on one row,
\* and 0 on a constant column, where the quotient is 0 / 0.
kdj_deviation(column) ==
    LET n == Len(column)
        d == n * column[n] - SumSeq(column)
        v == d * d * (n - 1)
        w == n * Spread(column)
        g == GCD(v, w)
    IN  IF n < 2 \/ Spread(column) = 0 THEN NaN
        ELSE Ratio(isqrt(((v \div g) * 10000) \div (w \div g), 100 * n), 100)

\* kdj_analyzer.py: _analyze_strength;  avg_dev > t  is  total > 3 * t
kdj_analyze_strength(data) ==
    IF iloc_raises(data, 1) THEN Raise("IndexError")
    ELSE LET k_dev == kdj_deviation(Column(data, "kdj_k"))
             d_dev == kdj_deviation(Column(data, "kdj_d"))
             j_dev == kdj_deviation(Column(data, "kdj_j"))
             total == k_dev.num + d_dev.num + j_dev.num
         IN  Return(
             IF k_dev.nan \/ d_dev.nan \/ j_dev.nan THEN "weak"
             ELSE IF total > 600 THEN "very_strong"
             ELSE IF total > 450 THEN "strong"
             ELSE IF total > 300 THEN "medium"
             ELSE "weak")

\* boll_analyzer.py: _analyze_strength
boll_analyze_strength(data) ==
    IF iloc_raises(data, 1) THEN Raise("IndexError")
    ELSE LET latest == iloc_back(data, 1)
             bandwidth == fdiv(100 * (latest.boll_upper - latest.boll_lower),
                               latest.boll_mid)
             position == fdiv(latest.close - latest.boll_lower,
                              latest.boll_upper - latest.boll_lower)
             above == latest.close > latest.boll_mid
         IN  Return(
             IF fgt(bandwidth, 4, 1) \/ fgt(position, 9, 10) \/ flt(position, 1, 10)
                THEN IF above THEN "very_strong" ELSE "very_weak"
             ELSE IF fgt(bandwidth, 3, 1) \/ fgt(position, 8, 10) \/ flt(position, 2, 10)
                THEN IF above THEN "strong" ELSE "weak"
             ELSE IF fgt(bandwidth, 2, 1) \/ fgt(position, 7, 10) \/ flt(position, 3, 10)
                THEN IF above THEN "slightly_strong" ELSE "slightly_weak"
             ELSE "neutral")

\* the optional keys of the breakthrough result, when they are not set
no_breakthrough ==
    [type |-> "no_breakthrough", strength |-> "unset",
     price_change_pct |-> "unset", volume_change |-> "unset"]

\* ma_system_analyzer.py: _analyze_ma_breakthrough.  np.std and np.mean of
\* the three averages: ma_std / ma_mean < 0.01 is, both sides squared and
\* the mean positive, 10000 * Spread < sum squared.  The result carries
\* ma_mean as the ratio sum / 3 and ma_std as its square, Spread / 9.
_analyze_ma_breakthrough(data) ==
    IF iloc_raises(data, 1) \/ iloc_raises(data, 2) THEN Raise("IndexError")
    ELSE LET latest == iloc_back(data, 1)
             prev == iloc_back(data, 2)
             ma_values == <<latest.ma_qfq_5, latest.ma_qfq_10, latest.ma_qfq_20>>
             is_convergence ==
                 10000 * Spread(ma_values) < SumSeq(ma_values) * SumSeq(ma_values)
             price_change == latest.close - prev.close
             volume_change == fdiv(latest.vol, prev.vol)
             found(type) ==
                 [type |-> type,
                  strength |-> IF fgt(volume_change, 2, 1) THEN "strong" ELSE "normal",
                  price_change_pct |-> fdiv(100 * price_change, prev.close),
                  volume_change |-> volume_change]
             outcome ==
                 IF is_convergence /\ price_change > 0 /\ fgt(volume_change, 3, 2)
                    THEN found("upward_breakthrough")
                 ELSE IF is_convergence /\ price_change < 0 /\ fgt(volume_change, 3, 2)
                    THEN found("downward_breakthrough")
                 ELSE no_breakthrough
         IN  Return([is_convergence |-> is_convergence,
                     ma_std_squared |-> <<Spread(ma_values), 9>>,
                     ma_mean |-> <<SumSeq(ma_values), 3>>,
                     type |-> outcome.type,
                     strength |-> outcome.strength,
                     price_change_pct |-> outcome.price_change_pct,
                     volume_change |-> outcome.volume_change])

MaxStrengthBars == 6     \* longest window handed to a strength computation
\* a bar on which every line is level: K = D = J = 50, the close on the
\* middle band at 100.0, the bands 10.0 either side, the averages at 100.0
LevelRow ==
    [close |-> 1000, vol |-> 10,
     boll_upper |-> 1100, boll_mid |-> 1000, boll_lower |-> 900,
     kdj_k |-> 50, kdj_d |-> 50, kdj_j |-> 50,
     ma_qfq_5 |-> 1000, ma_qfq_10 |-> 1000, ma_qfq_20 |-> 1000]

KdjStrengthRows ==
    { [LevelRow EXCEPT !.kdj_k = k, !.kdj_d = d, !.kdj_j = j] :
        k \in {50, 52}, d \in {50, 51}, j \in {50, 54} }

\* bands half_width either side of the middle band; they coincide only
\* when the closes they are computed from are all equal, the latest too
BollStrengthRows ==
    { [LevelRow EXCEPT !.close = c, !.boll_upper = 1000 + h, !.boll_lower = 1000 - h] :
        c \in {991, 993, 995, 1000, 1005, 1007, 1009}, h \in {10, 15, 20, 25} }
    \cup { [LevelRow EXCEPT !.boll_upper = 1000, !.boll_lower = 1000] }

MaBreakRows ==
    { [LevelRow EXCEPT !.close = c, !.vol = v, !.ma_qfq_10 = m, !.ma_qfq_20 = m + 10] :
        c \in {990, 1000, 1010}, v \in {0, 10, 16, 25}, m \in {1000, 1090} }

\* level bars followed by one or two bars of one family
StrengthSeries(max_len) ==
    LET families == {KdjStrengthRows, BollStrengthRows, MaBreakRows}
    IN  { << >> }
        \cup UNION { { [i \in 1..m |-> LevelRow] \o <<a>> : a \in f } :
                      f \in families, m \in 0..(max_len - 1) }
        \cup UNION { { [i \in 1..m |-> LevelRow] \o <<a, b>> : a \in f, b \in f } :
                      f \in families, m \in 0..(max_len - 2) }

InitDegenerate ==
    /\ series \in StrengthSeries(MaxStrengthBars)
    /\ labelling = "asc"
    /\ bar = NoBar
    /\ strength = <<0, 1>>
    /\ call = "none"
    /\ ret = "none"
    /\ raised = "none"

Call_kdj_strength == Outcome("kdj_strength", kdj_analyze_strength(series))

Call_boll_strength == Outcome("boll_strength", boll_analyze_strength(series))

Call_ma_breakthrough == Outcome("ma_breakthrough", _analyze_ma_breakthrough(series))

NextDegenerate == Call_kdj_strength \/ Call_boll_strength \/ Call_ma_breakthrough

SpecDegenerate == InitDegenerate /\ [][NextDegenerate]_vars

\* the denominator of the called computation is zero on the window
ZeroDenominator ==
    CASE call = "kdj_strength" ->
             /\ Len(series) >= 2
             /\ \A c \in {"kdj_k", "kdj_d", "kdj_j"} : Spread(Column(series, c)) = 0
      [] call = "boll_strength" ->
             /\ Len(series) >= 1
             /\ series[Len(series)].boll_upper = series[Len(series)].boll_lower
      [] call = "ma_breakthrough" ->
             /\ Len(series) >= 2
             /\ series[Len(series) - 1].vol = 0
      [] OTHER -> FALSE

\* C16: when the denominator of a strength or position computation is zero
\* (K, D and J constant over the window, the upper and lower band equal on
\* the latest bar, a volume of 0 on the previous bar) the analyzer raises
\* nothing and returns the label that stands for no signal: the lowest KDJ
\* strength, the neutral BOLL strength, no breakthrough.
C16_ZeroDenominatorNeutral ==
    ZeroDenominator =>
        /\ raised = "none"
        /\ call = "kdj_strength" => ret = "weak"
        /\ call = "boll_strength" => ret = "neutral"
        /\ call = "ma_breakthrough" => ret.type = "no_breakthrough"

-----------------------------------------------------------------------------
(* ma_system_analyzer.py: _analyze_support_resistance, called by           *)
(* analyze_ma_system (line 50) with the seven averages of lines 30-33.     *)
(* Prices and averages are whole numbers.                                   *)

ma_columns ==
    <<"ma_qfq_5", "ma_qfq_10", "ma_qfq_20", "ma_qfq_30", "ma_qfq_60", "ma_qfq_90",
      "ma_qfq_250">>

\* Python's None in the place of a level
None == [none |-> TRUE]

\* sorted(levels, key=value) and sorted(levels, key=value, reverse=True):
\* both are stable, equal values keep the order they were appended in
RECURSIVE sorted_by_value(_, _)
sorted_by_value(levels, reverse) ==
    IF levels = << >> THEN << >>
    ELSE LET x == levels[Len(levels)]
             rest == sorted_by_value(SubSeq(levels, 1, Len(levels) - 1), reverse)
             before(y) == IF reverse THEN y.value >= x.value ELSE y.value <= x.value
             k == Cardinality({i \in 1..Len(rest) : before(rest[i])})
         IN  SubSeq(rest, 1, k) \o <<x>> \o SubSeq(rest, k + 1, Len(rest))

\* the levels appended by the loop of lines 409-414, in column order
RECURSIVE levels_of(_, _, _, _)
levels_of(latest, columns, latest_price, below) ==
    IF columns = << >> THEN << >>
    ELSE LET ma == columns[1]
             rest == levels_of(latest, Tail(columns), latest_price, below)
         IN  IF (latest[ma] < latest_price) = below
             THEN <<[ma |-> ma, value |-> latest[ma]]>> \o rest
             ELSE rest

\* _analyze_support_resistance with the support levels sorted upwards
support_resistance_ascending(data, columns) ==
    IF iloc_raises(data, 1) THEN Raise("IndexError")
    ELSE LET latest == iloc_back(data, 1)
             latest_price == latest.close
             support_levels ==
                 sorted_by_value(levels_of(latest, columns, latest_price, TRUE), FALSE)
             resistance_levels ==
                 sorted_by_value(levels_of(latest, columns, latest_price, FALSE), FALSE)
         IN  Return([support_levels |-> support_levels,
                     resistance_levels |-> resistance_levels,
                     nearest_support |->
                         IF support_levels # << >> THEN support_levels[1] ELSE None,
                     nearest_resistance |->
                         IF resistance_levels # << >> THEN resistance_levels[1] ELSE None,
                     current_price |-> latest_price])

_analyze_support_resistance(data, columns) ==
    IF iloc_raises(data, 1) THEN Raise("IndexError")
    ELSE LET latest == iloc_back(data, 1)
             latest_price == latest.close
             support_levels ==
                 sorted_by_value(levels_of(latest, columns, latest_price, TRUE), TRUE)
             resistance_levels ==
                 sorted_by_value(levels_of(latest, columns, latest_price, FALSE), FALSE)
         IN  Return([support_levels |-> support_levels,
                     resistance_levels |-> resistance_levels,
                     nearest_support |->
                         IF support_levels # << >> THEN support_levels[1] ELSE None,
                     nearest_resistance |->
                         IF resistance_levels # << >> THEN resistance_levels[1] ELSE None,
                     current_price |-> latest_price])

MaxLevelBars == 2        \* longest DataFrame handed to the support/resistance analysis
\* a row of the MA system: the close and the seven averages in column order
LevelRow7(close, values) ==
    [close |-> close, ma_qfq_5 |-> values[1], ma_qfq_10 |-> values[2],
     ma_qfq_20 |-> values[3], ma_qfq_30 |-> values[4], ma_qfq_60 |-> values[5],
     ma_qfq_90 |-> values[6], ma_qfq_250 |-> values[7]]

\* older bars with every average at 10, then a latest bar whose averages
\* lie below, at and above the close
LevelSeries(max_len) ==
    { << >> }
    \cup { [i \in 1..m |-> LevelRow7(10, [j \in 1..7 |-> 10])] \o <<LevelRow7(c, v)>> :
             m \in 0..(max_len - 1), c \in {10, 11}, v \in [1..7 -> {9, 10, 11, 12}] }

InitLevels ==
    /\ series \in LevelSeries(MaxLevelBars)
    /\ labelling = "asc"
    /\ bar = NoBar
    /\ strength = <<0, 1>>
    /\ call = "none"
    /\ ret = "none"
    /\ raised = "none"

Call_analyze_support_resistance ==
    Outcome("analyze_support_resistance",
            _analyze_support_resistance(series, ma_columns))

NextLevels == Call_analyze_support_resistance

SpecLevels == InitLevels /\ [][NextLevels]_vars

\* the values of the latest bar's averages below the close, and the others
ValuesBelow ==
    {series[Len(series)][ma_columns[j]] : j \in 1..7} \cap
        {v \in 0..20 : v < series[Len(series)].close}

ValuesNotBelow ==
    {series[Len(series)][ma_columns[j]] : j \in 1..7} \cap
        {v \in 0..20 : v >= series[Len(series)].close}

\* C21: on a DataFrame with a latest bar, each of the seven averages is in
\* exactly one of the two lists, with its value: in the support list when
\* it is strictly below the latest close, in the resistance list otherwise;
\* support levels come in decreasing and resistance levels in increasing
\* order of value; nearest_support is None exactly when no average is below
\* the close and is otherwise the greatest such value, nearest_resistance
\* is None exactly when every average is below it and is otherwise the
\* smallest value not below it.
C21_SupportResistance ==
    (call = "analyze_support_resistance" /\ Len(series) >= 1) =>
        LET latest == series[Len(series)]
            sup == ret.support_levels
            res == ret.resistance_levels
        IN  /\ raised = "none"
            /\ Len(sup) + Len(res) = 7
            /\ \A j \in 1..7 :
                  LET ma == ma_columns[j]
                  IN  IF latest[ma] < latest.close
                      THEN \E i \in 1..Len(sup) :
                               sup[i] = [ma |-> ma, value |-> latest[ma]]
                      ELSE \E i \in 1..Len(res) :
                               res[i] = [ma |-> ma, value |-> latest[ma]]
            /\ \A i \in 1..(Len(sup) - 1) : sup[i].value >= sup[i + 1].value
            /\ \A i \in 1..(Len(res) - 1) : res[i].value <= res[i + 1].value
            /\ ret.nearest_support = None <=> ValuesBelow = {}
            /\ ValuesBelow # {} =>
                  \A v \in ValuesBelow : ret.nearest_support.value >= v
            /\ ret.nearest_resistance = None <=> ValuesNotBelow = {}
            /\ ValuesNotBelow # {} =>
                  \A v \in ValuesNotBelow : ret.nearest_resistance.value <= v
            /\ ret.current_price = latest.close

\* averages at two different values below the close and at two different
\* values not below it
C21_Witness ==
    /\ call = "analyze_support_resistance"
    /\ Len(series) >= 1
    /\ Cardinality(ValuesBelow) >= 2
    /\ Cardinality(ValuesNotBelow) >= 2
    /\ ret.nearest_support.value = 10
    /\ ret.nearest_resistance.value = 11

-----------------------------------------------------------------------------
(* The MACD composite signal: macd_analyzer.py _generate_composite_signal  *)
(* and technical_indicators.py _generate_macd_composite_signal, called on  *)
(* the labels of one analysis.  The result is the list of the parts that   *)
(* the source joins with a comma: the divergence label stands for the part *)
(* that prefixes it, the strength label for the part that brackets it.     *)
(* The substring tests are those of the Chinese labels: the rising test of *)
(* the long-term label matches "strong_up" and "up_weakening", that of the *)
(* medium-term label only "rising" (not "weak_up"), and the falling tests  *)
(* mirror them; the cross and bar tests match the six short-term labels    *)
(* other than "no_signal".                                                 *)

\* macd_analyzer.py _generate_composite_signal with the sideways part
\* appended whenever no other trend part was
macd_composite_default_phrase(analysis) ==
    LET long_term == analysis.long_term_trend
        medium_term == analysis.medium_term_trend
        short_term == analysis.short_term_signal
        bull_bar == short_term \in {"golden_cross", "red_growing", "red_shrinking"}
        bear_bar == short_term \in {"death_cross", "green_growing", "green_shrinking"}
        divergence_part ==
            IF analysis.divergence # "no_divergence"
            THEN <<analysis.divergence>> ELSE <<>>
        trend_part ==
            IF long_term \in {"strong_up", "up_weakening"} \/ medium_term = "rising"
            THEN IF bull_bar THEN <<"bull_strengthening">>
                 ELSE IF bear_bar THEN <<"bull_weakening">>
                 ELSE <<"consolidating">>
            ELSE IF long_term \in {"strong_down", "down_weakening"}
                    \/ medium_term = "falling"
            THEN IF bear_bar THEN <<"bear_strengthening">>
                 ELSE IF bull_bar THEN <<"bear_weakening">>
                 ELSE <<"consolidating">>
            ELSE <<"consolidating">>
    IN  divergence_part \o trend_part \o <<analysis.strength>>

\* macd_analyzer.py: _generate_composite_signal
macd_generate_composite_signal(analysis) ==
    LET long_term == analysis.long_term_trend
        medium_term == analysis.medium_term_trend
        short_term == analysis.short_term_signal
        bull_bar == short_term \in {"golden_cross", "red_growing", "red_shrinking"}
        bear_bar == short_term \in {"death_cross", "green_growing", "green_shrinking"}
        divergence_part ==
            IF analysis.divergence # "no_divergence"
            THEN <<analysis.divergence>> ELSE <<>>
        trend_part ==
            IF long_term \in {"strong_up", "up_weakening"} \/ medium_term = "rising"
            THEN IF bull_bar THEN <<"bull_strengthening">>
                 ELSE IF bear_bar THEN <<"bull_weakening">>
                 ELSE <<>>
            ELSE IF long_term \in {"strong_down", "down_weakening"}
                    \/ medium_term = "falling"
            THEN IF bear_bar THEN <<"bear_strengthening">>
                 ELSE IF bull_bar THEN <<"bear_weakening">>
                 ELSE <<>>
            ELSE <<"consolidating">>
    IN  divergence_part \o trend_part \o <<analysis.strength>>

\* the labels the five MACD sub-analyses return
MacdAnalyses ==
    [long_term_trend : {"strong_up", "up_weakening", "strong_down", "down_weakening",
                        "consolidating"},
     medium_term_trend : {"sideways", "rising", "weak_up", "falling", "weak_down"},
     short_term_signal : {"golden_cross", "death_cross", "red_growing", "red_shrinking",
                          "green_growing", "green_shrinking", "no_signal"},
     divergence : {"top_divergence", "bottom_divergence", "no_divergence"},
     strength : {"very_strong", "very_weak", "strong", "weak", "normal"}]

\* series holds the analysis dict the composite is generated from
InitComposite ==
    /\ series \in MacdAnalyses
    /\ labelling = "asc"
    /\ bar = NoBar
    /\ strength = <<0, 1>>
    /\ call = "none"
    /\ ret = "none"
    /\ raised = "none"

Call_macd_generate_composite_signal ==
    Outcome("macd_generate_composite_signal",
            Return(macd_generate_composite_signal(series)))

Call_generate_macd_composite_signal ==
    Outcome("_generate_macd_composite_signal",
            Return(_generate_macd_composite_signal(series)))

NextComposite ==
    Call_macd_generate_composite_signal \/ Call_generate_macd_composite_signal

SpecComposite == InitComposite /\ [][NextComposite]_vars

CompositeCalled ==
    call \in {"macd_generate_composite_signal", "_generate_macd_composite_signal"}

TrendPhrases ==
    {"bull_strengthening", "bull_weakening", "bear_strengthening", "bear_weakening",
     "consolidating"}

\* the positions of the composite that hold a trend phrase
PhrasePositions == {i \in 1..Len(ret) : ret[i] \in TrendPhrases}

RisingSelected ==
    \/ series.long_term_trend \in {"strong_up", "up_weakening"}
    \/ series.medium_term_trend = "rising"

FallingSelected ==
    /\ ~RisingSelected
    /\ \/ series.long_term_trend \in {"strong_down", "down_weakening"}
       \/ series.medium_term_trend = "falling"

\* C22: when the long-term label is a rising variant or the medium-term
\* label is "rising", and the short-term signal is the golden cross or a
\* red-bar label, the composite contains "bull_strengthening" and neither
\* bearish phrase, also when the other trend label is a falling variant.
C22_BullishBranchFirst ==
    (/\ CompositeCalled
     /\ RisingSelected
     /\ series.short_term_signal \in {"golden_cross", "red_growing", "red_shrinking"})
    => /\ \E i \in 1..Len(ret) : ret[i] = "bull_strengthening"
       /\ \A i \in 1..Len(ret) :
             ret[i] \notin {"bear_strengthening", "bear_weakening", "bull_weakening"}

\* a strongly falling long-term trend with a rising medium-term trend and a
\* golden cross gave the bullish phrase
C22_Witness ==
    /\ CompositeCalled
    /\ series.long_term_trend = "strong_down"
    /\ series.medium_term_trend = "rising"
    /\ series.short_term_signal = "golden_cross"
    /\ \E i \in 1..Len(ret) : ret[i] = "bull_strengthening"

\* C30: the MACD composite ends with the strength part; it starts with the
\* divergence part exactly when the divergence label is not "no_divergence";
\* it holds at most one trend phrase, between the two; it holds no trend
\* phrase exactly when the rising or the falling branch is selected and the
\* short-term signal is "no_signal".
C30_CompositeShape ==
    CompositeCalled =>
        LET d == IF series.divergence # "no_divergence" THEN 1 ELSE 0
        IN  /\ raised = "none"
            /\ Len(ret) >= 1
            /\ ret[Len(ret)] = series.strength
            /\ d = 1 => ret[1] = series.divergence
            /\ Len(ret) = d + Cardinality(PhrasePositions) + 1
            /\ Cardinality(PhrasePositions) <= 1
            /\ PhrasePositions = {} <=>
                  /\ RisingSelected \/ FallingSelected
                  /\ series.short_term_signal = "no_signal"

\* a rising long-term trend with no short-term signal and no divergence:
\* the composite is the strength part alone
C30_Witness ==
    /\ call = "macd_generate_composite_signal"
    /\ series.long_term_trend = "strong_up"
    /\ series.medium_term_trend = "falling"
    /\ series.short_term_signal = "no_signal"
    /\ ret = <<series.strength>>

-----------------------------------------------------------------------------
(* The windows of the aggregator: technical_indicators.py lines 20-22,     *)
(* df.tail(40), df.tail(20) and df.tail(10) of one frame.                  *)

windows(df) ==
    [long_term |-> frame_tail(df, 40),
     medium_term |-> frame_tail(df, 20),
     short_term |-> frame_tail(df, 10)]

InitWindows ==
    /\ series \in AggSeries(MaxAggBars)
    /\ labelling \in {"asc", "desc"}
    /\ bar = NoBar
    /\ strength = <<0, 1>>
    /\ call = "none"
    /\ ret = "none"
    /\ raised = "none"

Call_windows ==
    Outcome("windows",
            Return(windows(DataFrame(series, Index(Len(series), labelling)))))

NextWindows == Call_windows

SpecWindows == InitWindows /\ [][NextWindows]_vars

\* window w is the last min(n, nominal) rows of the series, in order, each
\* with the label it has in the series
IsSuffix(w, nominal) ==
    LET n == Len(series)
        m == IF n < nominal THEN n ELSE nominal
    IN  /\ Len(w.rows) = m
        /\ Len(w.index) = m
        /\ \A i \in 1..m :
              /\ w.rows[i] = series[n - m + i]
              /\ w.index[i] = Index(n, labelling)[n - m + i]

\* C23: for a series of n bars the long, medium and short windows are its
\* last min(n, 40), min(n, 20) and min(n, 10) bars in their order; the
\* short window is the end of the medium window and the medium window the
\* end of the long one, so that all three end at the latest bar; a window
\* is shorter than its nominal length only when n is.
C23_WindowsAreSuffixes ==
    call = "windows" =>
        /\ raised = "none"
        /\ IsSuffix(ret.long_term, 40)
        /\ IsSuffix(ret.medium_term, 20)
        /\ IsSuffix(ret.short_term, 10)
        /\ ret.short_term.rows =
              SubSeq(ret.medium_term.rows,
                     Len(ret.medium_term.rows) - Len(ret.short_term.rows) + 1,
                     Len(ret.medium_term.rows))
        /\ ret.medium_term.rows =
              SubSeq(ret.long_term.rows,
                     Len(ret.long_term.rows) - Len(ret.medium_term.rows) + 1,
                     Len(ret.long_term.rows))
        /\ Len(ret.long_term.rows) < 40 => Len(series) < 40
        /\ Len(ret.medium_term.rows) < 20 => Len(series) < 20
        /\ Len(ret.short_term.rows) < 10 => Len(series) < 10

\* a series longer than the long window, whose first rows no window holds
C23_Witness ==
    /\ call = "windows"
    /\ Len(series) > 40
    /\ labelling = "asc"
    /\ ret.long_term.index[1] = Len(series) - 40
    /\ ret.short_term.index[10] = Len(series) - 1

-----------------------------------------------------------------------------
(* kdj_analyzer.py: analyze_kdj and the analyses it is made of.  K, D, J   *)
(* and the close are whole numbers.                                        *)
(*                                                                         *)
(* Labels: trend (lines 82-101) "strong_overbought", "overbought",         *)
(* "strong_oversold", "oversold", "strong_up", "bullish", "strong_down",   *)
(* "bearish", "flat", "ranging"; divergence (lines 143-149)                *)
(* "top_divergence", "bottom_divergence", "no_divergence"; pattern (lines  *)
(* 185-192) "bull_aligned", "bear_aligned", "parallel", "spread";          *)
(* composite (lines 201-221) "strong_sell", "hold_cautiously",             *)
(* "strong_buy", "buy_cautiously", "watch_at_high", "keep_long",           *)
(* "enter_at_low", "keep_watching", "wait".                                *)

\* kdj_analyze_kdj_trend with the K band tested before the J thresholds
kdj_trend_band_first(data, timeframe) ==
    IF iloc_raises(data, 1) THEN Raise("IndexError")
    ELSE LET latest == iloc_back(data, 1)
             n == Len(data)
             column == Column(data, "kdj_k")
             d == n * latest.kdj_k - SumSeq(column)
             beyond == n >= 2 /\ d * d * (n - 1) > n * Spread(column)
             k_slope == data[n].kdj_k - data[1].kdj_k
             d_slope == data[n].kdj_d - data[1].kdj_d
             j_slope == data[n].kdj_j - data[1].kdj_j
         IN  Return(
             IF d > 0 /\ beyond
                THEN IF k_slope > 0 /\ d_slope > 0 /\ j_slope > 0
                     THEN "strong_up" ELSE "bullish"
             ELSE IF d < 0 /\ beyond
                THEN IF k_slope < 0 /\ d_slope < 0 /\ j_slope < 0
                     THEN "strong_down" ELSE "bearish"
             ELSE IF latest.kdj_j > 100
                THEN IF latest.kdj_j > 110 THEN "strong_overbought" ELSE "overbought"
             ELSE IF latest.kdj_j < 0
                THEN IF latest.kdj_j < -10 THEN "strong_oversold" ELSE "oversold"
             ELSE IF 10 * Abs(k_slope) < n /\ 10 * Abs(d_slope) < n THEN "flat"
             ELSE "ranging")

\* kdj_analyzer.py: _analyze_kdj_trend.  K > k_mean + k_std is, with
\* d = n * K - sum, d > 0 and d^2 * (n - 1) > n * Spread; the deviation of
\* one row is nan and no comparison with it holds.  A slope is
\* (last - first) / len(data).
kdj_analyze_kdj_trend(data, timeframe) ==
    IF iloc_raises(data, 1) THEN Raise("IndexError")
    ELSE LET latest == iloc_back(data, 1)
             n == Len(data)
             column == Column(data, "kdj_k")
             d == n * latest.kdj_k - SumSeq(column)
             beyond == n >= 2 /\ d * d * (n - 1) > n * Spread(column)
             k_slope == data[n].kdj_k - data[1].kdj_k
             d_slope == data[n].kdj_d - data[1].kdj_d
             j_slope == data[n].kdj_j - data[1].kdj_j
         IN  Return(
             IF latest.kdj_j > 100
                THEN IF latest.kdj_j > 110 THEN "strong_overbought" ELSE "overbought"
             ELSE IF latest.kdj_j < 0
                THEN IF latest.kdj_j < -10 THEN "strong_oversold" ELSE "oversold"
             ELSE IF d > 0 /\ beyond
                THEN IF k_slope > 0 /\ d_slope > 0 /\ j_slope > 0
                     THEN "strong_up" ELSE "bullish"
             ELSE IF d < 0 /\ beyond
                THEN IF k_slope < 0 /\ d_slope < 0 /\ j_slope < 0
                     THEN "strong_down" ELSE "bearish"
             ELSE IF 10 * Abs(k_slope) < n /\ 10 * Abs(d_slope) < n THEN "flat"
             ELSE "ranging")

\* column.rolling(window=5, center=True).max() / .min() at position i:
\* the extreme of positions i-2..i+2, nan where the window is not full
rolling_center(column, i, is_max) ==
    IF i < 3 \/ i > Len(column) - 2 THEN NaN
    ELSE LET w == SubSeq(column, i - 2, i + 2)
         IN  Ratio(IF is_max THEN SeqMax(w) ELSE SeqMin(w), 1)

\* rolling_center over the five positions that end at i
rolling_trailing(column, i, is_max) ==
    IF i < 5 \/ i > Len(column) THEN NaN
    ELSE LET w == SubSeq(column, i - 4, i)
         IN  Ratio(IF is_max THEN SeqMax(w) ELSE SeqMin(w), 1)

\* a > b and a < b on float64: False when either side is nan
nan_gt(a, b) == ~a.nan /\ ~b.nan /\ a.num > b.num

nan_lt(a, b) == ~a.nan /\ ~b.nan /\ a.num < b.num

\* kdj_analyze_divergence with the rolling windows ending at their position
kdj_divergence_trailing(data) ==
    IF iloc_raises(data, 1) \/ iloc_raises(data, 5) THEN Raise("IndexError")
    ELSE LET n == Len(data)
             close == Column(data, "close")
             k == Column(data, "kdj_k")
         IN  Return(
             IF nan_gt(rolling_trailing(close, n, TRUE), rolling_trailing(close, n - 4, TRUE))
                /\ nan_lt(rolling_trailing(k, n, TRUE), rolling_trailing(k, n - 4, TRUE))
                THEN "top_divergence"
             ELSE IF nan_lt(rolling_trailing(close, n, FALSE),
                            rolling_trailing(close, n - 4, FALSE))
                     /\ nan_gt(rolling_trailing(k, n, FALSE),
                               rolling_trailing(k, n - 4, FALSE))
                THEN "bottom_divergence"
             ELSE "no_divergence")

\* kdj_analyzer.py: _analyze_divergence;  .iloc[-1] is position n and
\* .iloc[-5] position n - 4 of the rolling series
kdj_analyze_divergence(data) ==
    IF iloc_raises(data, 1) \/ iloc_raises(data, 5) THEN Raise("IndexError")
    ELSE LET n == Len(data)
             close == Column(data, "close")
             k == Column(data, "kdj_k")
         IN  Return(
             IF nan_gt(rolling_center(close, n, TRUE), rolling_center(close, n - 4, TRUE))
                /\ nan_lt(rolling_center(k, n, TRUE), rolling_center(k, n - 4, TRUE))
                THEN "top_divergence"
             ELSE IF nan_lt(rolling_center(close, n, FALSE),
                            rolling_center(close, n - 4, FALSE))
                     /\ nan_gt(rolling_center(k, n, FALSE),
                               rolling_center(k, n - 4, FALSE))
                THEN "bottom_divergence"
             ELSE "no_divergence")

\* kdj_analyzer.py: _analyze_kdj_pattern
kdj_analyze_kdj_pattern(data) ==
    IF iloc_raises(data, 1) THEN Raise("IndexError")
    ELSE LET latest == iloc_back(data, 1)
         IN  Return(
             IF latest.kdj_j > latest.kdj_k /\ latest.kdj_k > latest.kdj_d
                THEN "bull_aligned"
             ELSE IF latest.kdj_j < latest.kdj_k /\ latest.kdj_k < latest.kdj_d
                THEN "bear_aligned"
             ELSE IF Abs(latest.kdj_k - latest.kdj_d) < 2 THEN "parallel"
             ELSE "spread")

\* kdj_analyzer.py: _generate_composite_signal, the substring tests on the
\* labels that contain the substring
kdj_generate_composite_signal(long_trend, medium_trend, short_trend, cross_pattern, divergence) ==
    LET overbought == {"strong_overbought", "overbought"}
        oversold == {"strong_oversold", "oversold"}
    IN  IF long_trend \in overbought \/ medium_trend \in overbought
        THEN IF cross_pattern \in {"death_cross", "death_cross_j"}
                \/ divergence = "top_divergence"
             THEN "strong_sell" ELSE "hold_cautiously"
        ELSE IF long_trend \in oversold \/ medium_trend \in oversold
        THEN IF cross_pattern \in {"golden_cross", "golden_cross_j"}
                \/ divergence = "bottom_divergence"
             THEN "strong_buy" ELSE "buy_cautiously"
        ELSE IF short_trend = "strong_up"
        THEN IF divergence = "top_divergence" THEN "watch_at_high" ELSE "keep_long"
        ELSE IF short_trend = "strong_down"
        THEN IF divergence = "bottom_divergence" THEN "enter_at_low" ELSE "keep_watching"
        ELSE "wait"

\* kdj_analyzer.py: analyze_kdj
analyze_kdj(df, long_term, medium_term, short_term) ==
    IF iloc_raises(df, 1) THEN Raise("IndexError")
    ELSE LET latest == iloc_back(df, 1)
             long_trend == kdj_analyze_kdj_trend(long_term, "long")
             medium_trend == kdj_analyze_kdj_trend(medium_term, "medium")
             short_trend == kdj_analyze_kdj_trend(short_term, "short")
             cross_pattern == kdj_analyze_cross_pattern(short_term)
             divergence == kdj_analyze_divergence(medium_term)
             kdj_strength == kdj_analyze_strength(medium_term)
             pattern == kdj_analyze_kdj_pattern(short_term)
         IN  IF long_trend.exc # "none" THEN long_trend
             ELSE IF medium_trend.exc # "none" THEN medium_trend
             ELSE IF short_trend.exc # "none" THEN short_trend
             ELSE IF cross_pattern.exc # "none" THEN cross_pattern
             ELSE IF divergence.exc # "none" THEN divergence
             ELSE IF kdj_strength.exc # "none" THEN kdj_strength
             ELSE IF pattern.exc # "none" THEN pattern
             ELSE Return(
                 [K |-> latest.kdj_k, D |-> latest.kdj_d, J |-> latest.kdj_j,
                  long_term_trend |-> long_trend.val,
                  medium_term_trend |-> medium_trend.val,
                  short_term_trend |-> short_trend.val,
                  cross_pattern |-> cross_pattern.val,
                  divergence |-> divergence.val,
                  strength |-> kdj_strength.val,
                  pattern |-> pattern.val,
                  signal |-> kdj_generate_composite_signal(
                                 long_trend.val, medium_trend.val, short_trend.val,
                                 cross_pattern.val, divergence.val)])

MaxKdjBars == 41         \* longest frame handed to analyze_kdj
\* one column: base until the last  run  bars, which are at base + step
Plateau(n, base, step, run) ==
    [p \in 1..n |-> IF p > n - run THEN base + step ELSE base]

\* frames whose close moves on the last bar, whose K moves on the last bar
\* or over the last five, and whose D and J move on the last bar
KdjFrames(max_len) ==
    { [p \in 1..n |-> [close |-> Plateau(n, 100, c, 1)[p],
                        kdj_k |-> Plateau(n, 50, k[1], k[2])[p],
                        kdj_d |-> Plateau(n, 50, d, 1)[p],
                        kdj_j |-> Plateau(n, 50, j, 1)[p]]] :
        n \in 0..max_len,
        c \in {-1, 0, 1},
        k \in {<<-2, 1>>, <<-2, 5>>, <<0, 1>>, <<2, 1>>, <<2, 5>>},
        d \in {-2, 0, 1},
        j \in {-61, -55, -3, 0, 3, 55, 61} }

InitKdj ==
    /\ series \in KdjFrames(MaxKdjBars)
    /\ labelling = "asc"
    /\ bar = NoBar
    /\ strength = <<0, 1>>
    /\ call = "none"
    /\ ret = "none"
    /\ raised = "none"

\* the windows are those of the docstring of analyze_kdj (lines 15-17)
Call_analyze_kdj ==
    Outcome("analyze_kdj",
            analyze_kdj(series, tail(series, 40), tail(series, 20), tail(series, 10)))

Call_kdj_divergence == Outcome("kdj_divergence", kdj_analyze_divergence(series))

NextKdj == Call_analyze_kdj \/ Call_kdj_divergence

SpecKdj == InitKdj /\ [][NextKdj]_vars

\* analyze_kdj or the divergence analysis has returned
KdjAnalysed == call = "analyze_kdj" /\ raised = "none"

KdjDivergenceCalled == call = "kdj_divergence"

\* C24: the KDJ divergence analysis returns "no divergence" for every
\* window of at least 5 bars, because the centered rolling extreme is
\* undefined at the last position; so the composite signal of analyze_kdj
\* is never one of the two that need a divergence.
C24_NoKdjDivergence ==
    /\ (KdjDivergenceCalled /\ Len(series) >= 5) =>
           (raised = "none" /\ ret = "no_divergence")
    /\ KdjAnalysed =>
           /\ ret.divergence = "no_divergence"
           /\ ret.signal \notin {"watch_at_high", "enter_at_low"}

\* the close makes a new low on the last bar while K has risen over the
\* last five bars, and the analysis still reports no divergence
C24_Witness ==
    /\ KdjDivergenceCalled
    /\ Len(series) >= 9
    /\ series[Len(series)].close < series[Len(series) - 1].close
    /\ series[Len(series) - 4].kdj_k > series[Len(series) - 5].kdj_k
    /\ ret = "no_divergence"

OverboughtLabels == {"strong_overbought", "overbought"}

OversoldLabels == {"strong_oversold", "oversold"}

\* the overbought / oversold label that the latest J alone calls for
LabelOfJ(j) ==
    IF j > 110 THEN "strong_overbought"
    ELSE IF j > 100 THEN "overbought"
    ELSE IF j < -10 THEN "strong_oversold"
    ELSE IF j < 0 THEN "oversold"
    ELSE "neither"

KdjTrends == {ret.long_term_trend, ret.medium_term_trend, ret.short_term_trend}

\* C29: in the result of analyze_kdj the overbought / oversold part of the
\* three trend labels is decided by the latest J alone (above 100, strong
\* above 110; below 0, strong below -10); when one label is an overbought
\* or oversold label all three are that label, and overbought and oversold
\* never occur together.
C29_ExtremesFollowLatestJ ==
    KdjAnalysed =>
        /\ LabelOfJ(ret.J) # "neither" => KdjTrends = {LabelOfJ(ret.J)}
        /\ LabelOfJ(ret.J) = "neither" =>
               KdjTrends \cap (OverboughtLabels \cup OversoldLabels) = {}
        /\ KdjTrends \cap (OverboughtLabels \cup OversoldLabels) # {} =>
               Cardinality(KdjTrends) = 1
        /\ ~(KdjTrends \cap OverboughtLabels # {} /\ KdjTrends \cap OversoldLabels # {})

\* three different windows whose K stands above its band, all labelled by J
C29_Witness ==
    /\ KdjAnalysed
    /\ Len(series) = MaxKdjBars
    /\ series[Len(series) - 4].kdj_k > series[Len(series) - 5].kdj_k
    /\ ret.J = 111
    /\ KdjTrends = {"strong_overbought"}

-----------------------------------------------------------------------------
(* _find_local_extremes on its own: the three copies, on one column with   *)
(* the row labels its window carries.                                      *)

MaxExtremeBars == 6      \* longest column handed to _find_local_extremes

ExtremeInputs(max_len) ==
    { [values |-> v, is_high |-> h] :
        v \in UNION { [1..n -> 0..2] : n \in 0..max_len }, h \in BOOLEAN }

InitExtremes ==
    /\ series \in ExtremeInputs(MaxExtremeBars)
    /\ labelling \in {"asc", "desc", "offset"}
    /\ bar = NoBar
    /\ strength = <<0, 1>>
    /\ call = "none"
    /\ ret = "none"
    /\ raised = "none"

Call_find_local_extremes ==
    Outcome("_find_local_extremes",
            _find_local_extremes(series.values,
                                 WindowIndex(Len(series.values), labelling),
                                 series.is_high))

Call_macd_find_local_extremes ==
    Outcome("macd_find_local_extremes",
            macd_find_local_extremes(series.values,
                                     WindowIndex(Len(series.values), labelling),
                                     series.is_high))

Call_rsi_find_local_extremes ==
    Outcome("rsi_find_local_extremes",
            rsi_find_local_extremes(series.values,
                                    WindowIndex(Len(series.values), labelling),
                                    series.is_high))

NextExtremes ==
    \/ Call_find_local_extremes
    \/ Call_macd_find_local_extremes
    \/ Call_rsi_find_local_extremes

SpecExtremes == InitExtremes /\ [][NextExtremes]_vars

ExtremesCalled ==
    call \in {"_find_local_extremes", "macd_find_local_extremes",
              "rsi_find_local_extremes"}

\* the values at the interior positions from i on that lie strictly beyond
\* both chronological neighbours, in chronological order
RECURSIVE PositionalExtremes(_, _, _)
PositionalExtremes(values, is_high, i) ==
    IF i > Len(values) - 1 THEN <<>>
    ELSE LET beyond(a, b) == IF is_high THEN a > b ELSE a < b
             here == IF beyond(values[i], values[i - 1])
                        /\ beyond(values[i], values[i + 1])
                     THEN <<values[i]>> ELSE <<>>
         IN  here \o PositionalExtremes(values, is_high, i + 1)

\* C25: the local-extreme finder of the MACD and RSI divergence works by
\* relative position: whatever row labels the window carries, it returns,
\* without raising, the values of the interior positions that are strictly
\* greater (smaller) than both chronological neighbours, in chronological
\* order.
C25_ExtremesByPosition ==
    ExtremesCalled =>
        /\ raised = "none"
        /\ ret = PositionalExtremes(series.values, series.is_high, 2)

\* C25 restricted to windows labelled 0..m-1 in chronological order
C25_ExtremesOnAscendingLabels ==
    (ExtremesCalled /\ labelling = "asc") =>
        /\ raised = "none"
        /\ ret = PositionalExtremes(series.values, series.is_high, 2)

\* the finder raises on the tail of a longer frame
C25_KeyErrorOnTail ==
    /\ ExtremesCalled
    /\ labelling = "offset"
    /\ Len(series.values) >= 3
    /\ raised = "KeyError"

-----------------------------------------------------------------------------
(* Single-day patterns with the same shape test (SpecCandle).              *)

\* the counters after the single-day checks on the latest bar
TodayTally == single_day_tally(series[Len(series)])

\* C26: is_inverted_hammer and is_shooting_star agree on every bar, so the
\* returned patterns hold the inverted hammer and the shooting star
\* together or neither; together they add 1 to the bullish and 1 to the
\* bearish counter, which leaves the difference of the two as the other
\* single-day patterns made it.
C26_InvertedHammerIsShootingStar ==
    (Analysed /\ Len(series) >= 5) =>
        LET b == series[Len(series)]
            others == (IF "hammer" \in KeptToday THEN 1 ELSE 0)
                      - (IF "hanging_man" \in KeptToday THEN 1 ELSE 0)
                      - (IF "gravestone_doji" \in KeptToday THEN 1 ELSE 0)
        IN  /\ is_inverted_hammer(b) <=> is_shooting_star(b)
            /\ "inverted_hammer" \in KeptToday <=> "shooting_star" \in KeptToday
            /\ TodayTally.bullish_count - TodayTally.bearish_count = others

\* a falling bar with a long upper shadow was returned under both names
C26_Witness ==
    /\ Analysed
    /\ Len(series) >= 5
    /\ {"inverted_hammer", "shooting_star"} \subseteq KeptToday
    /\ series[Len(series)].close < series[Len(series)].open

\* C27: the hanging man is the hammer on a falling bar, so a returned
\* hanging man comes with a returned hammer, and the single-day checks
\* then leave the bearish counter no higher than the bullish one.
C27_HangingManWithHammer ==
    (Analysed /\ Len(series) >= 5) =>
        LET b == series[Len(series)]
        IN  /\ is_hanging_man(b) <=> (is_hammer(b) /\ b.close < b.open)
            /\ "hanging_man" \in KeptToday =>
                   /\ "hammer" \in KeptToday
                   /\ TodayTally.bearish_count <= TodayTally.bullish_count

\* a hanging man was returned
C27_Witness ==
    /\ Analysed
    /\ Len(series) >= 5
    /\ "hanging_man" \in KeptToday
    /\ TodayTally.bearish_count = 1

-----------------------------------------------------------------------------
(* The range of the candlestick strength (SpecCandle).                     *)

\* C28: with at least one returned pattern the mean weight
\* total_weight / n lies between 1 and 5, so min(5, .) leaves it as it is
\* and the stars are those of the mean; the returned list never holds more
\* than 12 patterns (eight single-day ones and one per multi-day group).
C28_MeanWeightWithinCap ==
    (Analysed /\ Len(series) >= 5) =>
        LET t == candlestick_tally(series)
            n == Len(ret.patterns)
        IN  /\ n <= 12
            /\ n >= 1 =>
                   /\ n <= t.total_weight
                   /\ t.total_weight <= 5 * n
                   /\ clamp_strength(<<t.total_weight, n>>) = <<t.total_weight, n>>
                   /\ ret.strength = convert_to_stars(<<t.total_weight, n>>)

\* a four-day pattern was returned alone: the mean weight is 4
C28_Witness ==
    /\ Analysed
    /\ Len(series) >= 5
    /\ Len(ret.patterns) = 1
    /\ Kept("four_day") # {}
    /\ candlestick_tally(series).total_weight = 4

=============================================================================
